---- MODULE Spec2Model ----
(***************************************************************************)
(* md2cf: publishing rendered Markdown pages to a Confluence wiki.         *)
(*                                                                         *)
(* The module models the upsert engine (md2cf/upsert.py), the wiki client  *)
(* it drives (md2cf/api.py) and the publishing run of md2cf/__main__.py.   *)
(* Python None is written None for strings and NoId for identifiers; an    *)
(* Optional[List[str]] is a record [none, list].  A raised exception is    *)
(* the field "raised" of an operation's outcome ("" when it returned).     *)
(***************************************************************************)
EXTENDS Integers, Sequences, FiniteSets, TLC

None == "None"
NoId == 0

(***************************************************************************)
(* Values                                                                  *)
(***************************************************************************)

\* A rendered body is a sequence of segments: literal markup and link hrefs.
\* kind: "text" (markup), "tok" (placeholder token n), "url" (URL of the
\* remote page n), "orig" (a link's original text), "esc" (its escaped text).
Seg(kind, s, n) == [kind |-> kind, s |-> s, n |-> n]
Text(s) == Seg("text", s, 0)

\* A version message is a sequence of atoms: free text, or a content-hash
\* marker "[v" + 40 hex digits + "]" carrying the digest h.
MsgText(s) == [k |-> "text", s |-> s, h |-> <<>>]
Marker(h) == [k |-> "marker", s |-> "", h |-> h]

NoLabels == [none |-> TRUE, list |-> <<>>]
LabelList(l) == [none |-> FALSE, list |-> l]

\* Page.get_content_hash: the SHA-1 of the body alone (collision-free here:
\* the digest is written as the body it was computed from).
get_content_hash(page) == page.body

\* The text atom that is a single line feed.
Newline == MsgText("\n")

\* A search without the anchor: the first marker anywhere in the message.
CONTENT_HASH_REGEX_search_anywhere(message) ==
    LET at == { i \in DOMAIN message : message[i].k = "marker" }
    IN  IF at # {}
        THEN [matched |-> TRUE,
              group1 |-> message[CHOOSE i \in at : \A j \in at : i <= j].h]
        ELSE [matched |-> FALSE, group1 |-> <<>>]

\* CONTENT_HASH_REGEX.search(message), r"\[v([a-f0-9]{40})]$": Python's $
\* (without re.MULTILINE) matches at the end of the string and just before a
\* line feed that ends the string; group(1) is the marker's digest.
CONTENT_HASH_REGEX_search(message) ==
    LET n == Len(message)
        last == IF n > 1 /\ message[n] = Newline THEN n - 1 ELSE n
    IN  IF last > 0 /\ message[last].k = "marker"
        THEN [matched |-> TRUE, group1 |-> message[last].h]
        ELSE [matched |-> FALSE, group1 |-> <<>>]

\* The label names the model uses, in Python's string order.
LabelNames == <<"x", "y">>
Rank(l) == CHOOSE i \in 1..Len(LabelNames) : LabelNames[i] = l

RECURSIVE Insert(_, _)
Insert(l, s) ==
    IF s = <<>> THEN <<l>>
    ELSE IF Rank(l) <= Rank(Head(s)) THEN <<l>> \o s
    ELSE <<Head(s)>> \o Insert(l, Tail(s))

\* Python's sorted() on a list of label names.
RECURSIVE sorted(_)
sorted(s) == IF s = <<>> THEN <<>> ELSE Insert(Head(s), sorted(Tail(s)))

(***************************************************************************)
(* The wiki: a set of remote pages, each with a unique id and title.       *)
(***************************************************************************)

\* files: the page's remote attachments, each a [name, message].
NoPage ==
    [id |-> NoId, title |-> None, ancestors |-> <<>>, message |-> <<>>,
     labels |-> <<>>, body |-> <<>>, minorEdit |-> FALSE, files |-> {}]

RemotePage(id, title, ancestors, message, labels, body) ==
    [id |-> id, title |-> title, ancestors |-> ancestors, message |-> message,
     labels |-> labels, body |-> body, minorEdit |-> FALSE, files |-> {}]

ById(remote, id) ==
    IF \E p \in remote : p.id = id THEN CHOOSE p \in remote : p.id = id ELSE NoPage

ByTitle(remote, title) ==
    IF \E p \in remote : p.title = title
    THEN CHOOSE p \in remote : p.title = title ELSE NoPage

\* A request record of the client; the fields a call does not use are empty.
Req(op, id, title, body, parent_id, message, labels, minor_edit) ==
    [op |-> op, id |-> id, title |-> title, body |-> body, parent_id |-> parent_id,
     message |-> message, labels |-> labels, minor_edit |-> minor_edit]

\* MinimalConfluence.get_page: by id when page_id is given (a missing id is an
\* HTTP 404, raised by raise_for_status), else by title (no result: None).
get_page(remote, title, page_id) ==
    IF page_id # NoId
    THEN IF ById(remote, page_id) = NoPage
         THEN [raised |-> "HTTPError", page |-> NoPage]
         ELSE [raised |-> "", page |-> ById(remote, page_id)]
    ELSE IF title # None
    THEN [raised |-> "", page |-> ByTitle(remote, title)]
    ELSE [raised |-> "ValueError", page |-> NoPage]

\* The ancestor chain the wiki gives a page posted with ancestors [{id: parent_id}].
ChainTo(remote, parent_id) == ById(remote, parent_id).ancestors \o <<parent_id>>

NextId(remote) == CHOOSE i \in 1..(Cardinality(remote) + 4) :
                      /\ \A p \in remote : p.id # i
                      /\ \A j \in 1..(i - 1) : \E p \in remote : p.id = j

\* The wiki keeps a label name once: the names of add are joined to have.
AddMissing(have, add) ==
    LET keep == { i \in DOMAIN add :
                    /\ \A j \in 1..(i - 1) : add[j] # add[i]
                    /\ \A j \in DOMAIN have : have[j] # add[i] }
    IN  have \o [k \in 1..Cardinality(keep) |->
                    add[CHOOSE i \in keep : Cardinality({ j \in keep : j < i }) = k - 1]]

\* MinimalConfluence.create_page: the posted structure becomes a new remote page.
\* A parent id that is not a page of the wiki is refused (HTTP error).
create_page(remote, title, body, parent_id, update_message, labels) ==
    IF parent_id # NoId /\ ById(remote, parent_id) = NoPage
    THEN [raised |-> "HTTPError", page |-> NoPage, remote |-> remote]
    ELSE LET new == RemotePage(NextId(remote), title,
                               IF parent_id # NoId THEN ChainTo(remote, parent_id)
                               ELSE <<>>,
                               update_message,
                               IF labels.none THEN <<>>
                               ELSE AddMissing(<<>>, labels.list),
                               body)
         IN  [raised |-> "", page |-> new, remote |-> remote \cup {new}]

\* MinimalConfluence.update_page: a new version of the page; ancestors and
\* labels are sent only when given, the version message is the one sent.
update_page(remote, page, body, parent_id, update_message, labels, minor_edit) ==
    IF parent_id # NoId /\ ById(remote, parent_id) = NoPage
    THEN [raised |-> "HTTPError", page |-> NoPage, remote |-> remote]
    ELSE LET new == [page EXCEPT
                        !.body = body,
                        !.ancestors = IF parent_id # NoId
                                      THEN ChainTo(remote, parent_id) ELSE @,
                        !.message = update_message,
                        !.labels = IF labels.none THEN @
                                   ELSE AddMissing(<<>>, labels.list),
                        !.minorEdit = minor_edit]
         IN  [raised |-> "", page |-> new,
              remote |-> (remote \ {ById(remote, page.id)}) \cup {new}]

\* MinimalConfluence.add_labels: the labels are attached, none is removed.
add_labels(remote, page, labels) ==
    LET cur == ById(remote, page.id)
        new == [cur EXCEPT !.labels = AddMissing(@, labels)]
    IN  (remote \ {cur}) \cup {new}

NoAttachment == [name |-> None, message |-> <<>>]

\* MinimalConfluence.get_attachment: the page's attachment of that name, or None.
get_attachment(remote, confluence_page, name) ==
    LET cur == ById(remote, confluence_page.id)
    IN  IF \E a \in cur.files : a.name = name
        THEN CHOOSE a \in cur.files : a.name = name
        ELSE NoAttachment

\* MinimalConfluence.get_url: base + webui link of the page.
get_url(page) == Seg("url", "", page.id)

(***************************************************************************)
(* md2cf/upsert.py                                                         *)
(***************************************************************************)

\* labels_need_updating: None (falsy) unless the sorted name lists differ.
labels_need_updating(page, existing_page) ==
    IF page.labels.none THEN FALSE
    ELSE sorted(existing_page.labels) # sorted(page.labels.list)

\* page_needs_updating; existing_page.ancestors[-1] on an empty list raises.
page_needs_updating(page, existing_page, replace_all_labels) ==
    IF page.parent_id = NoId /\ Len(existing_page.ancestors) > 1
    THEN [raised |-> "", value |-> TRUE]
    ELSE IF page.parent_id # NoId /\ existing_page.ancestors = <<>>
    THEN [raised |-> "IndexError", value |-> FALSE]
    ELSE IF page.parent_id # NoId
            /\ page.parent_id # existing_page.ancestors[Len(existing_page.ancestors)]
    THEN [raised |-> "", value |-> TRUE]
    ELSE IF replace_all_labels /\ labels_need_updating(page, existing_page)
    THEN [raised |-> "", value |-> TRUE]
    ELSE LET existing_page_hash_match ==
                 CONTENT_HASH_REGEX_search(existing_page.message)
         IN  IF existing_page_hash_match.matched
                /\ existing_page_hash_match.group1 = get_content_hash(page)
             THEN [raised |-> "", value |-> FALSE]
             ELSE [raised |-> "", value |-> TRUE]

\* A get_parent_id_from_title that returns None for a missing parent.
get_parent_id_from_title_silent(remote, page) ==
    [raised |-> "", id |-> get_page(remote, page.parent_title, NoId).page.id]

\* get_parent_id_from_title: the id of the page with the parent's title.
get_parent_id_from_title(remote, page) ==
    LET parent_page == get_page(remote, page.parent_title, NoId).page
    IN  IF parent_page = NoPage
        THEN [raised |-> "KeyError", id |-> NoId]
        ELSE [raised |-> "", id |-> parent_page.id]

\* The version message of upsert_page: the content-hash marker is appended
\* to the user's message under only_changed.
page_message(message, page, only_changed) ==
    IF only_changed THEN Append(message, Marker(get_content_hash(page)))
    ELSE message

\* One request of the client: it joins the trace of requests, and the
\* request number f.fail (if any) raises HTTPError (r.raise_for_status()).
Send(f, req) ==
    LET t == Append(f.trace, req)
    IN  [f EXCEPT !.trace = t,
                  !.raised = IF Len(t) = f.fail THEN "HTTPError" ELSE @]

\* upsert_page, lines 57-69: look the page up.
upsert_lookup(f) ==
    LET s == Send(f, Req("get_page", f.page.page_id, f.page.title, <<>>, NoId,
                         <<>>, NoLabels, FALSE))
        g == get_page(f.remote, f.page.title, f.page.page_id)
    IN  IF s.raised # "" THEN s
        ELSE [s EXCEPT !.raised = g.raised, !.existing_page = g.page,
                       !.found = g.page]

\* upsert_page, lines 71-75: resolve the parent id from the parent title.
upsert_parent(f) ==
    IF f.raised # "" THEN f
    ELSE IF f.page.parent_id = NoId /\ f.page.parent_title # None
    THEN LET s == Send(f, Req("get_page", NoId, f.page.parent_title, <<>>, NoId,
                              <<>>, NoLabels, FALSE))
             r == get_parent_id_from_title(f.remote, f.page)
         IN  IF s.raised # "" THEN s
             ELSE IF r.raised # "" THEN [s EXCEPT !.raised = r.raised]
             ELSE [s EXCEPT !.page.parent_id = r.id]
    ELSE f

\* A create branch that drops the resolved parent id.
upsert_create_orphan(f, msg) ==
    LET s == Send(f, Req("create_page", NoId, f.page.title, f.page.body,
                         NoId, msg, f.page.labels, FALSE))
        c == create_page(f.remote, f.page.title, f.page.body, NoId,
                         msg, f.page.labels)
    IN  IF s.raised # "" THEN s
        ELSE [s EXCEPT !.remote = c.remote, !.existing_page = c.page,
                       !.action = "CREATED"]

\* upsert_page, lines 84-95: no existing page, create it.
upsert_create(f, msg) ==
    LET s == Send(f, Req("create_page", NoId, f.page.title, f.page.body,
                         f.page.parent_id, msg, f.page.labels, FALSE))
        c == create_page(f.remote, f.page.title, f.page.body, f.page.parent_id,
                         msg, f.page.labels)
    IN  IF s.raised # "" THEN s
        ELSE IF c.raised # "" THEN [s EXCEPT !.raised = c.raised]
        ELSE [s EXCEPT !.remote = c.remote, !.existing_page = c.page,
                       !.action = "CREATED"]

\* upsert_page, lines 100-108: update the existing page.
upsert_update(f, msg, replace_all_labels, minor_edit) ==
    LET labels == IF replace_all_labels THEN f.page.labels ELSE NoLabels
        s == Send(f, Req("update_page", f.existing_page.id, f.existing_page.title,
                         f.page.body, f.page.parent_id, msg, labels, minor_edit))
        u == update_page(f.remote, f.existing_page, f.page.body, f.page.parent_id,
                         msg, labels, minor_edit)
    IN  IF s.raised # "" THEN s
        ELSE IF u.raised # "" THEN [s EXCEPT !.raised = u.raised]
        ELSE [s EXCEPT !.remote = u.remote, !.existing_page = u.page,
                       !.action = "UPDATED"]

\* upsert_page, lines 112-118: attach the page's labels to an existing page.
upsert_labels(f, replace_all_labels) ==
    IF f.raised # "" THEN f
    ELSE IF /\ ~replace_all_labels
            /\ ~f.page.labels.none /\ f.page.labels.list # <<>>
            /\ labels_need_updating(f.page, f.existing_page)
    THEN LET s == Send(f, Req("add_labels", f.existing_page.id, None, <<>>, NoId,
                              <<>>, f.page.labels, FALSE))
         IN  IF s.raised # "" THEN s
             ELSE [s EXCEPT !.remote =
                       add_labels(f.remote, f.existing_page, f.page.labels.list)]
    ELSE f

\* upsert_page, lines 77-118: create, update or skip, then the labels.
upsert_write(f, message, only_changed, replace_all_labels, minor_edit) ==
    IF f.raised # "" THEN f
    ELSE LET msg == page_message(message, f.page, only_changed)
         IN  IF f.existing_page = NoPage
             THEN upsert_create(f, msg)
             ELSE LET need == IF only_changed
                              THEN page_needs_updating(f.page, f.existing_page,
                                                       replace_all_labels)
                              ELSE [raised |-> "", value |-> TRUE]
                      w == IF need.raised # "" THEN [f EXCEPT !.raised = need.raised]
                           ELSE IF need.value
                           THEN upsert_update(f, msg, replace_all_labels, minor_edit)
                           ELSE [f EXCEPT !.action = "SKIPPED"]
                  IN  upsert_labels(w, replace_all_labels)

\* upsert_page(confluence, message, page, only_changed, replace_all_labels,
\* minor_edit).  The outcome holds: raised; action and existing_page (the
\* UpsertResult, when it returned); found (what the first lookup returned);
\* the wiki and the page after the call (page.parent_id may have been
\* resolved); the trace of the client's requests.
upsert_page(remote, message, page, only_changed, replace_all_labels, minor_edit, fail) ==
    LET f0 == [remote |-> remote, page |-> page, trace |-> <<>>, raised |-> "",
               action |-> None, existing_page |-> NoPage, found |-> NoPage,
               fail |-> fail]
    IN  upsert_write(upsert_parent(upsert_lookup(f0)), message, only_changed,
                     replace_all_labels, minor_edit)

\* get_file_sha1: the SHA-1 of the attachment's bytes (written as the file).
get_file_sha1(attachment) == <<Seg("file", attachment, 0)>>

\* upsert_attachment(confluence, attachment, existing_page, message,
\* only_changed, page), on the frame of the page it belongs to.  The client
\* names its first parameter confluence_page (api.py:234, 243) and the calls
\* at upsert.py:182 and 200 pass page=...: Python raises TypeError before
\* anything is sent.
upsert_attachment(f, attachment, message, only_changed) ==
    LET new_attachment_hash == get_file_sha1(attachment)
        s == Send(f, Req("get_attachment", f.existing_page.id, attachment, <<>>,
                         NoId, <<>>, NoLabels, FALSE))
        existing_attachment == get_attachment(f.remote, f.existing_page, attachment)
        m == CONTENT_HASH_REGEX_search(existing_attachment.message)
    IN  IF s.raised # "" THEN [s EXCEPT !.action = None]
        ELSE IF existing_attachment = NoAttachment
        THEN [s EXCEPT !.action = "CREATED", !.raised = "TypeError"]
        ELSE IF only_changed /\ m.matched /\ m.group1 = new_attachment_hash
        THEN [s EXCEPT !.action = "SKIPPED"]
        ELSE [s EXCEPT !.action = None, !.raised = "TypeError"]

(***************************************************************************)
(* State                                                                   *)
(***************************************************************************)

VARIABLES
    confluence,   \* the wiki: the set of remote pages
    args,         \* the options of the run (argparse namespace)
    page,         \* the Page handed to upsert_page
    given,        \* that Page as it was when the last call began
    result,       \* the outcome of the last upsert_page call
    previous,     \* the outcome of the call before it
    untouched,    \* page and wiki were not changed between the last two calls
    edited,       \* page or wiki were changed since the last call
    ncalls,       \* the number of upsert_page calls made
    pc,           \* where main() stands
    file_list,    \* the markdown documents named on the command line
    pages_to_upload,   \* the collected Pages
    path_to_page, \* map_document_path_to_confluence_page
    index,        \* the position of the publish loop / the substitution loop
    exit_status,  \* the status the process exits with (-1 while it runs)
    upserts,      \* the upsert_page / upsert_attachment calls of the run
    requests,     \* the requests the client sent in the run
    changed,      \* the pages whose body the substitution pass changed
    next_token,   \* the placeholder tokens generated so far
    run,          \* the number of the run
    source,       \* the markdown file being read: its stem and its lines
    frontmatter,  \* what get_document_frontmatter returned
    renderer,     \* the ConfluenceRenderer: title, attachments, relative_links, output
    elements,     \* the markdown elements the renderer has still to render
    document,     \* the Page built from the file
    tree,         \* the directory tree get_pages_from_directory walks
    todo,         \* the directories os.walk has still to yield
    folder_data,  \* folder_data of get_pages_from_directory
    processed_pages   \* processed_pages of get_pages_from_directory

callVars == <<page, given, result, previous, untouched, edited, ncalls>>

mainVars == <<pc, file_list, pages_to_upload, path_to_page, index, exit_status,
              upserts, requests, changed, next_token, run>>

docVars == <<source, frontmatter, renderer, elements, document>>

walkVars == <<tree, todo, folder_data, processed_pages>>

libVars == <<docVars, walkVars>>

vars == <<confluence, args, callVars, mainVars, libVars>>

\* No document is being read.
DocIdle ==
    /\ source = <<>> /\ frontmatter = <<>> /\ renderer = <<>>
    /\ elements = <<>> /\ document = <<>>

\* No directory is being walked.
WalkIdle ==
    /\ tree = <<>> /\ todo = <<>> /\ folder_data = <<>> /\ processed_pages = <<>>

\* main() is not running.
MainIdle ==
    /\ pc = "idle" /\ file_list = <<>> /\ pages_to_upload = <<>>
    /\ path_to_page = <<>> /\ index = 0 /\ exit_status = -1
    /\ upserts = <<>> /\ requests = <<>> /\ changed = {}
    /\ next_token = 0 /\ run = 0

MaxCalls == 2

HomeId == 1
ParentId == 2
PageId == 3

B1 == <<Text("one")>>
B2 == <<Text("two")>>
Bodies == {B1, B2}

Page(title, body, page_id, parent_id, parent_title, labels) ==
    [title |-> title, body |-> body, page_id |-> page_id, parent_id |-> parent_id,
     parent_title |-> parent_title, labels |-> labels]

NoCall ==
    [remote |-> {}, page |-> Page(None, <<>>, NoId, NoId, None, NoLabels),
     trace |-> <<>>, raised |-> "", action |-> None, existing_page |-> NoPage,
     found |-> NoPage, fail |-> 0]

Home == RemotePage(HomeId, "Home", <<>>, <<>>, <<>>, <<>>)
Parent == RemotePage(ParentId, "P", <<HomeId>>, <<>>, <<>>, <<>>)

\* The version messages a remote page may carry when the run starts.
InitMessages ==
    { <<>>, <<Marker(B1)>>, <<Marker(B2)>>, <<MsgText("msg"), Marker(B1)>>,
      <<Marker(B1), MsgText("msg")>>, <<Marker(B1), Newline>> }

\* The wikis a run may meet: the home page, the parent page or not, the page
\* itself or not, at the top, under the home page or under the parent.
InitRemotes ==
    { {Home} \cup ps \cup ts :
        ps \in {{}, {Parent}},
        ts \in {{}} \cup
               { {RemotePage(PageId, "T", a, m, l, B2)} :
                    a \in {<<>>, <<HomeId>>, <<HomeId, ParentId>>},
                    m \in InitMessages,
                    l \in {<<>>, <<"y", "x">>} } }

InitPages ==
    { Page("T", b, i, pr[1], pr[2], l) :
        b \in {B1},
        i \in {NoId, PageId},
        pr \in {<<NoId, None>>, <<NoId, "P">>, <<HomeId, None>>, <<ParentId, None>>},
        l \in {NoLabels, LabelList(<<>>), LabelList(<<"x">>),
               LabelList(<<"x", "y">>), LabelList(<<"x", "y", "y">>)} }

UpsertArgs ==
    { [message |-> m, only_changed |-> oc, replace_all_labels |-> ral,
       minor_edit |-> FALSE, enable_relative_links |-> FALSE,
       ignore_relative_link_errors |-> FALSE, dry_run |-> FALSE] :
        m \in {<<>>, <<MsgText("msg")>>}, oc \in BOOLEAN, ral \in BOOLEAN }

UpsertInit ==
    /\ confluence \in InitRemotes
    /\ args \in UpsertArgs
    /\ page \in InitPages
    /\ given = page
    /\ result = NoCall
    /\ previous = NoCall
    /\ untouched = TRUE
    /\ edited = FALSE
    /\ ncalls = 0
    /\ MainIdle
    /\ DocIdle /\ WalkIdle

\* One call of upsert_page on the page; any one request may fail.  A call
\* that raised ends the run: no call follows it.
Upsert ==
    /\ ncalls < MaxCalls
    /\ result.raised = ""
    /\ \E fail \in 0..4 :
          LET r == upsert_page(confluence, args.message, page, args.only_changed,
                               args.replace_all_labels, args.minor_edit, fail)
          IN  /\ result' = [r EXCEPT !.remote = {},
                                        !.fail = IF fail <= Len(r.trace) THEN fail
                                                 ELSE 0]
              /\ confluence' = r.remote
              /\ page' = r.page
    /\ given' = page
    /\ previous' = result
    /\ untouched' = ~edited
    /\ edited' = FALSE
    /\ ncalls' = ncalls + 1
    /\ UNCHANGED <<args, mainVars, libVars>>

\* The markdown source is edited between two calls: the body changes.
EditSource ==
    /\ ncalls \in 1..(MaxCalls - 1)
    /\ result.raised = ""
    /\ ~edited
    /\ \E b \in Bodies \ {page.body} : page' = [page EXCEPT !.body = b]
    /\ edited' = TRUE
    /\ UNCHANGED <<confluence, args, given, result, previous, untouched, ncalls,
                   mainVars, libVars>>

\* Somebody edits the page on the wiki: a new version without the marker.
EditRemote ==
    /\ ncalls \in 1..(MaxCalls - 1)
    /\ result.raised = ""
    /\ ~edited
    /\ \E p \in confluence :
          /\ p.title = page.title
          /\ p.message # <<>>
          /\ confluence' = (confluence \ {p}) \cup {[p EXCEPT !.message = <<>>]}
    /\ edited' = TRUE
    /\ UNCHANGED <<args, page, given, result, previous, untouched, ncalls,
                   mainVars, libVars>>

UpsertNext == Upsert \/ EditSource \/ EditRemote

SpecUpsert == UpsertInit /\ [][UpsertNext]_vars

(***************************************************************************)
(* Properties of upsert_page                                               *)
(***************************************************************************)

Count(trace, op) == Cardinality({i \in DOMAIN trace : trace[i].op = op})

\* The parent id a page asks for: its parent_id, else the id of the remote
\* page that carries its parent_title, else none.
ResolvedParent(p) ==
    IF p.parent_id # NoId THEN p.parent_id
    ELSE IF p.parent_title # None THEN ByTitle(confluence, p.parent_title).id
    ELSE NoId

\* C1: with only_changed, when a call created the page and the same page is
\* upserted again (page and wiki untouched in between, no request failing),
\* the second call returns SKIPPED and sends no create_page or update_page.
C1_CreateThenSkip ==
    ( /\ args.only_changed
      /\ ncalls >= 2
      /\ previous.raised = "" /\ previous.action = "CREATED"
      /\ untouched
      /\ result.fail = 0 )
    => /\ result.raised = ""
       /\ result.action = "SKIPPED"
       /\ Count(result.trace, "create_page") = 0
       /\ Count(result.trace, "update_page") = 0

\* C2: a call that returns reports CREATED exactly when its lookup found no
\* remote page; it then sent exactly one create_page, carrying the page's
\* body, resolved parent id, labels and version message, and no update_page
\* or add_labels.
C2_CreatedIffAbsent ==
    (ncalls >= 1 /\ result.raised = "")
    => /\ (result.action = "CREATED") <=> (result.found = NoPage)
       /\ result.found = NoPage =>
             /\ Count(result.trace, "create_page") = 1
             /\ Count(result.trace, "update_page") = 0
             /\ Count(result.trace, "add_labels") = 0
             /\ \E i \in DOMAIN result.trace :
                   result.trace[i] =
                       Req("create_page", NoId, given.title, given.body,
                           ResolvedParent(given),
                           IF args.only_changed
                           THEN Append(args.message, Marker(given.body))
                           ELSE args.message,
                           given.labels, FALSE)

C2_Witness ==
    /\ ncalls >= 1 /\ result.raised = "" /\ result.action = "CREATED"
    /\ given.parent_id = NoId /\ given.parent_title # None
    /\ ~given.labels.none /\ args.only_changed

\* What C3 calls the conditions of a skip, read as upsert.py reads them: the
\* page asks for no parent and the remote page has at most one ancestor, or
\* it asks for the remote page's last ancestor.
ParentDiffers(p, existing) ==
    \/ p.parent_id = NoId /\ Len(existing.ancestors) > 1
    \/ /\ p.parent_id # NoId
       /\ \/ existing.ancestors = <<>>
          \/ existing.ancestors[Len(existing.ancestors)] # p.parent_id

MayBeSkipped(p, existing) ==
    /\ args.only_changed
    /\ ~ParentDiffers(p, existing)
    /\ ~(/\ args.replace_all_labels
         /\ ~p.labels.none
         /\ sorted(existing.labels) # sorted(p.labels.list))
    /\ Len(existing.message) > 0
    /\ existing.message[Len(existing.message)] = Marker(p.body)

\* C3 (as claimed): for a page that exists remotely (its parent resolved, no
\* request refused), upsert_page returns SKIPPED without create_page or
\* update_page when the conditions of a skip hold, and in every other case
\* sends exactly one update_page and returns UPDATED.
C3_SkipOrUpdate ==
    ( /\ ncalls >= 1
      /\ result.found # NoPage
      /\ result.raised \notin {"HTTPError", "KeyError"} )
    => IF MayBeSkipped(result.page, result.found)
       THEN /\ result.raised = "" /\ result.action = "SKIPPED"
            /\ Count(result.trace, "update_page") = 0
            /\ Count(result.trace, "create_page") = 0
       ELSE /\ result.raised = "" /\ result.action = "UPDATED"
            /\ Count(result.trace, "update_page") = 1

\* C4: when the page has a parent_title and no parent_id and the lookup of
\* that title finds nothing, upsert_page raises KeyError and sends no
\* create_page, update_page or add_labels, whether the page exists or not.
C4_ParentNotFound ==
    ( /\ ncalls >= 1
      /\ given.parent_id = NoId /\ given.parent_title # None
      /\ Len(result.trace) >= 2 /\ result.fail # 2
      /\ ByTitle(confluence, given.parent_title) = NoPage )
    => /\ result.raised = "KeyError"
       /\ Count(result.trace, "create_page") = 0
       /\ Count(result.trace, "update_page") = 0
       /\ Count(result.trace, "add_labels") = 0

C4_Witness ==
    /\ ncalls >= 1
    /\ given.parent_id = NoId /\ given.parent_title # None
    /\ result.found # NoPage
    /\ result.raised = "KeyError"

\* The set of the names of a label list.
NamesOf(labels) == { labels[i] : i \in DOMAIN labels }

\* The remote version message ends with the marker of the page's body.
HashUnchanged(p, existing) ==
    /\ Len(existing.message) > 0
    /\ existing.message[Len(existing.message)] = Marker(p.body)

\* C11: under replace_all_labels and only_changed, for an existing page with
\* labels given, parent and content hash unchanged: when the set of remote
\* label names differs from the set of page.labels the page is UPDATED and
\* update_page carries page.labels; when the sets are equal the page is
\* SKIPPED and no update_page is sent.
C11_LabelSets ==
    ( /\ ncalls >= 1
      /\ args.only_changed /\ args.replace_all_labels
      /\ result.found # NoPage
      /\ result.raised \notin {"HTTPError", "KeyError"}
      /\ ~result.page.labels.none
      /\ ~ParentDiffers(result.page, result.found)
      /\ HashUnchanged(result.page, result.found) )
    => IF NamesOf(result.found.labels) # NamesOf(result.page.labels.list)
       THEN /\ result.raised = "" /\ result.action = "UPDATED"
            /\ \E i \in DOMAIN result.trace :
                  /\ result.trace[i].op = "update_page"
                  /\ result.trace[i].labels = result.page.labels
       ELSE /\ result.raised = "" /\ result.action = "SKIPPED"
            /\ Count(result.trace, "update_page") = 0

(***************************************************************************)
(* md2cf/__main__.py: one run of main()                                    *)
(***************************************************************************)

MaxLinks == 2
MaxRuns == 2

\* A Page of the run (document.py Page, with the fields main() adds).
RunPage(title, body, file_path, parent_title, relative_links, attachments) ==
    [title |-> title, original_title |-> None, body |-> body, page_id |-> NoId,
     parent_id |-> NoId, parent_title |-> parent_title, labels |-> NoLabels,
     file_path |-> file_path, relative_links |-> relative_links,
     attachments |-> attachments]

\* ConfluenceRenderer.link: a recorded relative link, its href the token n.
RelativeLink(path, n) ==
    [path |-> path, fragment |-> "", replacement |-> Seg("tok", "", n),
     original |-> Seg("orig", path, 0), escaped_original |-> Seg("esc", path, 0)]

\* (page.file_path.parent / Path(link_data.path)).resolve()
Resolve(path) ==
    CASE path = "a.md" -> "/docs/a.md"
      [] path = "b.md" -> "/docs/b.md"
      [] OTHER -> "/docs/x.md"

\* A replace whose result is dropped.
Replace_dropped(body, old, new) == body

\* str.replace on a body: every occurrence of old becomes new.
Replace(body, old, new) ==
    [i \in DOMAIN body |-> IF body[i] = old THEN new ELSE body[i]]

\* parse_page: the rendered body is the document's markup followed by its
\* links; a recorded relative link is rendered with its token as href, any
\* other link with its escaped URL.
parse_page(doc, enable_relative_links, first) ==
    LET links == [j \in DOMAIN doc.links |-> RelativeLink(doc.links[j], first + j)]
        hrefs == [j \in DOMAIN doc.links |->
                     IF enable_relative_links THEN links[j].replacement
                     ELSE links[j].escaped_original]
    IN  RunPage(doc.title, <<Text(doc.title)>> \o hrefs, doc.file_path,
                doc.parent_title,
                IF enable_relative_links THEN links ELSE <<>>,
                doc.attachments)

\* The number of links of the documents before document i.
RECURSIVE LinksBefore(_, _)
LinksBefore(docs, i) ==
    IF i <= 1 THEN 0 ELSE LinksBefore(docs, i - 1) + Len(docs[i - 1].links)

\* A lone page that keeps its own title.
only_page_untitled(p, a) == [p EXCEPT !.relative_links = <<>>]

\* collect_pages_to_upload, lines 703-722: a lone page takes args.title when
\* one is given and loses its relative links; the result of body.replace is
\* dropped, so the body keeps the tokens.
only_page(p, a) ==
    [p EXCEPT !.title = IF a.title # None THEN a.title ELSE @,
              !.relative_links = <<>>]

\* collect_pages_to_upload: files of a directory are parsed with
\* args.enable_relative_links, files named one by one with it only when more
\* than one is named; folder pages have no body.
collect_pages_to_upload(fl, a, first) ==
    LET erl == a.enable_relative_links /\ (fl.from_dir \/ Len(fl.docs) > 1)
        pages == [i \in DOMAIN fl.docs |->
                     IF fl.docs[i].file_path = None
                     THEN RunPage(fl.docs[i].title, <<>>, None,
                                  fl.docs[i].parent_title, <<>>, <<>>)
                     ELSE parse_page(fl.docs[i], erl,
                                     first + LinksBefore(fl.docs, i))]
    IN  IF Len(pages) = 1 THEN <<only_page(pages[1], a)>> ELSE pages

\* A title check that finds nothing.
colliding_titles_none(pages) == {}

\* main, lines 313-317: the titles that more than one page carries.
colliding_titles(pages) ==
    { pages[i].title : i \in { k \in DOMAIN pages :
                                 \E j \in DOMAIN pages :
                                    j # k /\ pages[j].title = pages[k].title } }

\* build_document_path_to_page_map: every file path maps to None.
build_document_path_to_page_map(pages) ==
    [k \in { Resolve(pages[i].file_path) :
               i \in { j \in DOMAIN pages : pages[j].file_path # None } } |-> NoPage]

\* A validation that lets every link pass.
validate_relative_links_lenient(pages, map) == FALSE

\* validate_relative_links: TRUE when some relative link leaves the batch
\* (the run then exits with status 1).
validate_relative_links(pages, map) ==
    \E i \in DOMAIN pages :
       \E j \in DOMAIN pages[i].relative_links :
          Resolve(pages[i].relative_links[j].path) \notin DOMAIN map

\* pre_process_page (no prefix, preface or postface given).
pre_process_page(p, a, space_info) ==
    LET p1 == [p EXCEPT !.original_title = p.title, !.page_id = a.page_id]
        p2 == IF p1.parent_title = None
              THEN [p1 EXCEPT !.parent_title = a.parent_title] ELSE p1
        p3 == IF p2.parent_title = None /\ p2.parent_id = NoId
              THEN [p2 EXCEPT !.parent_id = a.parent_id] ELSE p2
    IN  IF a.top_level /\ p3.parent_title = None /\ p3.parent_id = NoId
        THEN [p3 EXCEPT !.parent_id = space_info.homepage] ELSE p3

\* update_pages_with_relative_links, lines 578-603, from link k on: a link
\* whose file was published has its token replaced by the page's URL (not in
\* a dry run) and marks the page modified; a link whose file is not in the
\* map has its token replaced by the escaped original under
\* ignore_relative_link_errors, and ends the page's links otherwise.
RECURSIVE substitute_links(_, _, _, _, _)
substitute_links(p, k, map, a, page_modified) ==
    IF k > Len(p.relative_links)
    THEN [page |-> p, page_modified |-> page_modified]
    ELSE LET link_data == p.relative_links[k]
             link_absolute_path == Resolve(link_data.path)
         IN  IF link_absolute_path \notin DOMAIN map
             THEN IF a.ignore_relative_link_errors
                  THEN substitute_links(
                           [p EXCEPT !.body = Replace(@, link_data.replacement,
                                                      link_data.escaped_original)],
                           k + 1, map, a, page_modified)
                  ELSE [page |-> p, page_modified |-> page_modified]
             ELSE substitute_links(
                      IF a.dry_run THEN p
                      ELSE [p EXCEPT !.body =
                               Replace(@, link_data.replacement,
                                       get_url(map[link_absolute_path]))],
                      k + 1, map, a, TRUE)

\* One entry of the run's log of upsert_page / upsert_attachment calls.
Call(kind, name, pass, minor_edit, f) ==
    [kind |-> kind, name |-> name, pass |-> pass, minor_edit |-> minor_edit,
     action |-> IF f.raised = "" THEN f.action ELSE None, raised |-> f.raised,
     body |-> f.page.body]

\* main, lines 411-433 (not a dry run): the page's attachments one after the
\* other, until one raises.
RECURSIVE upsert_attachments(_, _, _)
upsert_attachments(f, attachments, a) ==
    IF attachments = <<>> \/ f.raised # "" THEN f
    ELSE CHOOSE out \in
             { upsert_attachments(
                   [g EXCEPT !.log = Append(@, Call("attachment", Head(attachments),
                                                    1, FALSE, g))],
                   Tail(attachments), a) :
               g \in {upsert_attachment(f, Head(attachments), a.message,
                                        a.only_changed)} } : TRUE

\* main, lines 392-449 (not a dry run): upsert the page, then its attachments.
publish(remote, p, a, fail) ==
    CHOOSE out \in
        { LET f == [remote |-> r.remote, page |-> r.page, trace |-> r.trace,
                    raised |-> r.raised, action |-> r.action,
                    existing_page |-> r.existing_page, found |-> r.found,
                    fail |-> r.fail,
                    log |-> <<Call("page", p.title, 1, a.minor_edit, r)>>]
          IN  [upsert_attachments(f, p.attachments, a) EXCEPT
                  !.existing_page = r.existing_page] :
          r \in {upsert_page(remote, a.message, p, a.only_changed,
                             a.replace_all_labels, a.minor_edit, fail)} } : TRUE

\* A publish loop that goes on after a failure.
publish_next_continue(something_went_wrong, i, n, a) ==
    IF i < n THEN "loop"
    ELSE IF ~something_went_wrong /\ a.enable_relative_links THEN "links"
    ELSE "exit"

\* A run that enters the substitution pass whether a publish failed or not.
publish_next_unchecked(something_went_wrong, i, n, a) ==
    IF i < n /\ ~something_went_wrong THEN "loop"
    ELSE IF a.enable_relative_links THEN "links"
    ELSE "exit"

\* main, lines 470-473: where the run goes after the iteration for page i of n.
publish_next(something_went_wrong, i, n, a) ==
    IF something_went_wrong THEN "exit"
    ELSE IF i < n THEN "loop"
    ELSE IF a.enable_relative_links THEN "links"
    ELSE "exit"

\* attachment_path.is_file()
is_file(attachment) == attachment # "gone.png"

(***************************************************************************)
(* The runs                                                                *)
(***************************************************************************)

LinkPaths == {"b.md", "x.md"}
LinkLists == UNION { [1..k -> LinkPaths] : k \in 0..MaxLinks }

Doc(title, file_path, parent_title, links, attachments) ==
    [title |-> title, file_path |-> file_path, parent_title |-> parent_title,
     links |-> links, attachments |-> attachments]

Folder == Doc("F", None, None, <<>>, <<>>)

DocsA(parent_title) ==
    { Doc("A", "a.md", parent_title, l, at) :
        l \in LinkLists, at \in {<<>>, <<"img.png", "pic.png">>, <<"gone.png">>} }

DocsB(parent_title) ==
    { Doc(t, "b.md", parent_title, l, <<>>) :
        t \in {"A", "B"}, l \in {<<>>, <<"a.md">>} }

\* The command lines: one file or a directory holding one file, two files,
\* a directory with a folder page and two files.
FileLists ==
    { [from_dir |-> d, docs |-> <<a>>] : d \in BOOLEAN, a \in DocsA(None) }
    \cup { [from_dir |-> FALSE, docs |-> <<a, b>>] :
             a \in DocsA(None), b \in DocsB(None) }
    \cup { [from_dir |-> TRUE, docs |-> <<Folder, a, b>>] :
             a \in DocsA("F"), b \in DocsB("F") }

MainArgs ==
    { [message |-> <<>>, only_changed |-> oc, replace_all_labels |-> FALSE,
       minor_edit |-> FALSE, enable_relative_links |-> erl,
       ignore_relative_link_errors |-> ign, dry_run |-> dry,
       page_id |-> NoId, parent_title |-> None, parent_id |-> NoId,
       top_level |-> FALSE, title |-> None] :
        oc \in BOOLEAN, erl \in BOOLEAN, ign \in BOOLEAN, dry \in BOOLEAN }

\* A page "A" of an earlier run, with its attachment img.png up to date.
OldA ==
    [RemotePage(ParentId, "A", <<HomeId>>, <<>>, <<>>, B2) EXCEPT
        !.files = {[name |-> "img.png",
                    message |-> <<Marker(get_file_sha1("img.png"))>>]}]

MainRemotes == { {Home}, {Home, OldA} }

CallIdle ==
    /\ page = NoCall.page /\ given = NoCall.page /\ result = NoCall
    /\ previous = NoCall /\ untouched = TRUE /\ edited = FALSE /\ ncalls = 0

MainInit ==
    /\ confluence \in MainRemotes
    /\ args \in MainArgs
    /\ file_list \in FileLists
    /\ CallIdle
    /\ DocIdle /\ WalkIdle
    /\ pc = "start" /\ pages_to_upload = <<>> /\ path_to_page = <<>>
    /\ index = 0 /\ exit_status = -1 /\ upserts = <<>> /\ requests = <<>>
    /\ changed = {} /\ next_token = 0 /\ run = 1

\* sys.exit(status), or the end of main (status 0).
Exit(status) == pc' = "exit" /\ exit_status' = status

\* main, line 311.
Collect ==
    /\ pc = "start"
    /\ pages_to_upload' = collect_pages_to_upload(file_list, args, next_token)
    /\ next_token' = next_token + LinksBefore(file_list.docs, Len(file_list.docs) + 1)
    /\ pc' = "collected"
    /\ UNCHANGED <<confluence, args, callVars, libVars, file_list, path_to_page, index,
                   exit_status, upserts, requests, changed, run>>

\* main, lines 313-334.
CheckTitles ==
    /\ pc = "collected"
    /\ IF colliding_titles(pages_to_upload) # {}
       THEN Exit(1)
       ELSE pc' = "titles_ok" /\ UNCHANGED exit_status
    /\ UNCHANGED <<confluence, args, callVars, libVars, file_list, pages_to_upload,
                   path_to_page, index, upserts, requests, changed, next_token, run>>

\* main, lines 336-348.
CheckAttachments ==
    /\ pc = "titles_ok"
    /\ IF \E i \in DOMAIN pages_to_upload :
             \E k \in DOMAIN pages_to_upload[i].attachments :
                ~is_file(pages_to_upload[i].attachments[k])
       THEN Exit(1)
       ELSE pc' = "attachments_ok" /\ UNCHANGED exit_status
    /\ UNCHANGED <<confluence, args, callVars, libVars, file_list, pages_to_upload,
                   path_to_page, index, upserts, requests, changed, next_token, run>>

\* main, lines 370-378.
ValidateLinks ==
    /\ pc = "attachments_ok"
    /\ LET map == IF args.enable_relative_links
                  THEN build_document_path_to_page_map(pages_to_upload)
                  ELSE <<>>
       IN  /\ path_to_page' = map
           /\ IF /\ args.enable_relative_links
                 /\ ~args.ignore_relative_link_errors
                 /\ validate_relative_links(pages_to_upload, map)
              THEN Exit(1)
              ELSE pc' = "validated" /\ UNCHANGED exit_status
    /\ UNCHANGED <<confluence, args, callVars, libVars, file_list, pages_to_upload,
                   index, upserts, requests, changed, next_token, run>>

\* main, lines 384-386: get_space; an HTTP error here is not caught.
GetSpace ==
    /\ pc = "validated"
    /\ requests' = Append(requests, Req("get_space", NoId, None, <<>>, NoId,
                                        <<>>, NoLabels, FALSE))
    /\ \E failed \in BOOLEAN :
          IF failed THEN Exit(1) /\ UNCHANGED index
          ELSE pc' = "loop" /\ index' = 1 /\ UNCHANGED exit_status
    /\ UNCHANGED <<confluence, args, callVars, libVars, file_list, pages_to_upload,
                   path_to_page, upserts, changed, next_token, run>>

\* The status of a run that has reached pc (-1 while it goes on).
status_at(next, something_went_wrong) ==
    IF next # "exit" THEN -1 ELSE IF something_went_wrong THEN 1 ELSE 0

\* confluence.get_space(args.space, additional_expansions=["homepage"])
space_info == [homepage |-> HomeId]

\* main, lines 388-471: one iteration of the publish loop.
Publish ==
    /\ pc = "loop"
    /\ \E p \in {pre_process_page(pages_to_upload[index], args, space_info)} :
       LET n == Len(pages_to_upload)
           mapped == p.file_path # None /\ args.enable_relative_links
       IN  IF args.dry_run
           THEN /\ pages_to_upload' = [pages_to_upload EXCEPT ![index] = p]
                /\ path_to_page' = IF mapped
                                   THEN [path_to_page EXCEPT
                                            ![Resolve(p.file_path)] = NoPage]
                                   ELSE path_to_page
                /\ pc' = publish_next(FALSE, index, n, args)
                /\ exit_status' = status_at(pc', FALSE)
                /\ UNCHANGED <<confluence, upserts, requests>>
           ELSE \E fail \in 0..(3 + Len(p.attachments)) :
                \E g \in {publish(confluence, p, args, fail)} :
                   LET something_went_wrong == g.raised # ""
                   IN  /\ fail <= Len(g.trace)
                       /\ confluence' = g.remote
                       /\ pages_to_upload' = [pages_to_upload EXCEPT ![index] = g.page]
                       /\ upserts' = upserts \o g.log
                       /\ requests' = requests \o g.trace
                       /\ path_to_page' =
                             IF mapped /\ ~something_went_wrong
                             THEN [path_to_page EXCEPT
                                      ![Resolve(p.file_path)] = g.existing_page]
                             ELSE path_to_page
                       /\ pc' = publish_next(something_went_wrong, index, n, args)
                       /\ exit_status' = status_at(pc', something_went_wrong)
    /\ index' = IF pc' = "loop" THEN index + 1 ELSE IF pc' = "links" THEN 1 ELSE index
    /\ UNCHANGED <<args, callVars, libVars, file_list, changed, next_token, run>>

\* update_pages_with_relative_links, lines 647-648, and main, lines 482-495:
\* an error ends the pass and the run.
links_next(something_went_wrong, i, n) ==
    IF something_went_wrong \/ i >= n THEN "exit" ELSE "links"

\* update_pages_with_relative_links, lines 571-648: one iteration of its loop.
Substitute ==
    /\ pc = "links"
    /\ \E s \in {IF pages_to_upload[index].file_path = None
                 THEN [page |-> pages_to_upload[index], page_modified |-> FALSE]
                 ELSE substitute_links(pages_to_upload[index], 1, path_to_page,
                                       args, FALSE)} :
       LET p == pages_to_upload[index]
           n == Len(pages_to_upload)
       IN  /\ changed' = IF s.page.body # p.body THEN changed \cup {index} ELSE changed
           /\ IF s.page_modified /\ ~args.dry_run
              THEN \E fail \in 0..3 :
                   \E r \in {upsert_page(confluence, args.message, s.page,
                                         args.only_changed, args.replace_all_labels,
                                         TRUE, fail)} :
                          /\ fail <= Len(r.trace)
                          /\ confluence' = r.remote
                          /\ pages_to_upload' = [pages_to_upload EXCEPT ![index] = r.page]
                          /\ upserts' = Append(upserts, Call("page", p.title, 3, TRUE, r))
                          /\ requests' = requests \o r.trace
                          /\ pc' = links_next(r.raised # "", index, n)
                          /\ exit_status' = status_at(pc', r.raised # "")
              ELSE /\ pages_to_upload' = [pages_to_upload EXCEPT ![index] = s.page]
                   /\ pc' = links_next(FALSE, index, n)
                   /\ exit_status' = status_at(pc', FALSE)
                   /\ UNCHANGED <<confluence, upserts, requests>>
    /\ index' = IF pc' = "links" THEN index + 1 ELSE index
    /\ UNCHANGED <<args, callVars, libVars, file_list, path_to_page, next_token, run>>

\* The same command line is run again: the wiki is what the last run left.
NewRun ==
    /\ pc = "exit"
    /\ run < MaxRuns
    /\ run' = run + 1
    /\ pc' = "start" /\ pages_to_upload' = <<>> /\ path_to_page' = <<>>
    /\ index' = 0 /\ exit_status' = -1 /\ upserts' = <<>> /\ requests' = <<>>
    /\ changed' = {}
    /\ UNCHANGED <<confluence, args, callVars, libVars, file_list, next_token>>

MainNext ==
    \/ Collect
    \/ CheckTitles
    \/ CheckAttachments
    \/ ValidateLinks
    \/ GetSpace
    \/ Publish
    \/ Substitute
    \/ NewRun

SpecMain == MainInit /\ [][MainNext]_vars

(***************************************************************************)
(* Properties of a run                                                     *)
(***************************************************************************)

\* Two collected pages carry the same title.
SameTitle ==
    \E i, j \in DOMAIN pages_to_upload :
       i # j /\ pages_to_upload[i].title = pages_to_upload[j].title

\* Link k of page i points to the file of page j of the batch.
LinksTo(i, k, j) ==
    /\ pages_to_upload[j].file_path # None
    /\ Resolve(pages_to_upload[j].file_path)
         = Resolve(pages_to_upload[i].relative_links[k].path)

\* Some relative link of some page points to no file of the batch.
BrokenLink ==
    \E i \in DOMAIN pages_to_upload :
       \E k \in DOMAIN pages_to_upload[i].relative_links :
          \A j \in DOMAIN pages_to_upload : ~LinksTo(i, k, j)

\* The calls of the log that wrote the page of that title in that pass.
Writes(title, pass) ==
    { m \in DOMAIN upserts :
        /\ upserts[m].kind = "page" /\ upserts[m].name = title
        /\ upserts[m].pass = pass
        /\ upserts[m].action \in {"CREATED", "UPDATED"} }

\* The body last written to the wiki for the page of that title (<<>> if none).
LastWritten(title) ==
    LET w == Writes(title, 1) \cup Writes(title, 3)
    IN  IF w = {} THEN <<>>
        ELSE upserts[CHOOSE m \in w : \A o \in w : o <= m].body

\* C5: when two or more collected pages have the same title, the run exits
\* with a non-zero status and no request is ever sent to the wiki client:
\* the run gets no further than the title check.
C5_DuplicateTitlesExit ==
    SameTitle =>
        /\ pc \in {"collected", "exit"}
        /\ requests = <<>> /\ upserts = <<>>
        /\ pc = "exit" => exit_status > 0

C5_Witness ==
    /\ SameTitle /\ Len(pages_to_upload) = 3
    /\ pc = "exit" /\ exit_status = 1

\* C6: with relative links enabled and tolerance off, when a relative link
\* of a page points to no file of the batch the run exits with a non-zero
\* status before any page or attachment is published: it gets no further
\* than the validation, and nothing was sent.
C6_InvalidLinksAbort ==
    (/\ args.enable_relative_links
     /\ ~args.ignore_relative_link_errors
     /\ BrokenLink) =>
        /\ pc \in {"collected", "titles_ok", "attachments_ok", "exit"}
        /\ requests = <<>> /\ upserts = <<>>
        /\ pc = "exit" => exit_status > 0

C6_Witness ==
    /\ args.enable_relative_links /\ ~args.ignore_relative_link_errors
    /\ BrokenLink /\ ~SameTitle
    /\ \A i \in DOMAIN pages_to_upload : pages_to_upload[i].attachments = <<>>
    /\ pc = "exit" /\ exit_status = 1

\* A run with relative links that published every page and ended with status 0.
Published ==
    /\ pc = "exit" /\ exit_status = 0
    /\ args.enable_relative_links /\ ~args.dry_run

\* C7: after a successful run with relative links, for every link of a page a
\* to the file of a page b of the batch: a's body holds the URL of b's remote
\* page where the link's href is, the link's token occurs nowhere in a's
\* body, and that body is the one last written to the wiki for a.
C7_LinkRoundTrip ==
    Published =>
        \A i \in DOMAIN pages_to_upload :
           \A k \in DOMAIN pages_to_upload[i].relative_links :
              \A j \in DOMAIN pages_to_upload :
                 LinksTo(i, k, j) =>
                    LET a == pages_to_upload[i]
                        b == ByTitle(confluence, pages_to_upload[j].title)
                    IN  /\ b # NoPage
                        /\ a.body[1 + k] = Seg("url", "", b.id)
                        /\ \A m \in DOMAIN a.body :
                              a.body[m] # a.relative_links[k].replacement
                        /\ LastWritten(a.title) = a.body
                        /\ ByTitle(confluence, a.title).body = a.body

C7_Witness ==
    /\ Published
    /\ \E i, j \in DOMAIN pages_to_upload :
          /\ pages_to_upload[i].title = "A" /\ pages_to_upload[j].title = "B"
          /\ \E k \in DOMAIN pages_to_upload[i].relative_links : LinksTo(i, k, j)
          /\ Writes("A", 3) # {}

\* C8: (not in a dry run) every page whose body the substitution pass
\* changed is upserted in that pass, with minor_edit true.
C8_ChangedRepublished ==
    ~args.dry_run =>
        \A i \in changed :
           \E m \in DOMAIN upserts :
              /\ upserts[m].kind = "page" /\ upserts[m].pass = 3
              /\ upserts[m].name = pages_to_upload[i].title
              /\ upserts[m].minor_edit

\* An upsert of the publish loop (of a page or of an attachment) raised.
FailedPublish ==
    \E m \in DOMAIN upserts : upserts[m].pass = 1 /\ upserts[m].raised # ""

\* C9: once an upsert of the publish loop raised, the run has exited with a
\* non-zero status, the failed call is the last upsert of the run, and the
\* run takes no further step (the next step starts another run).
C9_FailFast ==
    /\ [](FailedPublish =>
             /\ pc = "exit" /\ exit_status > 0
             /\ upserts[Len(upserts)].raised # ""
             /\ \A m \in DOMAIN upserts : upserts[m].pass = 1)
    /\ [][FailedPublish => pc' = "start"]_vars

C9_Witness ==
    /\ FailedPublish
    /\ index < Len(pages_to_upload)
    /\ args.enable_relative_links
    /\ pc = "exit" /\ exit_status = 1

\* C10: after a successful run with relative links and only_changed, every
\* page with at least one relative link was written in the publish loop and
\* written again in the substitution pass (never skipped).
C10_LinkedPageWrittenTwice ==
    (Published /\ args.only_changed) =>
        \A i \in DOMAIN pages_to_upload :
           pages_to_upload[i].relative_links # <<>> =>
              /\ Writes(pages_to_upload[i].title, 1) # {}
              /\ Writes(pages_to_upload[i].title, 3) # {}

(***************************************************************************)
(* md2cf/confluence_renderer.py and md2cf/document.py: from a markdown     *)
(* file to a Page                                                          *)
(***************************************************************************)

\* A URL as written in the markdown source.  dir and name spell its path in
\* decoded form; quoted tells that the source spells it with %-escapes.
Url(scheme, netloc, dir, name, fragment, quoted) ==
    [scheme |-> scheme, netloc |-> netloc, dir |-> dir, name |-> name,
     fragment |-> fragment, quoted |-> quoted]

NoUrl == Url("", "", "", "", "", FALSE)

\* A piece of text of a URL: s in decoded form, quoted when it is spelled
\* with %-escapes.
Spelled(s, quoted) == [s |-> s, quoted |-> quoted]

\* urllib.parse.urlparse: scheme, netloc, path (as spelled), fragment.
urlparse(url) ==
    [scheme |-> url.scheme, netloc |-> url.netloc,
     path |-> [dir |-> url.dir, name |-> url.name,
               quoted |-> url.quoted /\ (url.dir # "" \/ url.name # "")],
     fragment |-> url.fragment]

\* A path component is empty.
EmptyPath(path) == path.dir = "" /\ path.name = ""

\* urllib.parse.unquote: the %-escapes are decoded.
unquote(path) == [path EXCEPT !.quoted = FALSE]

\* pathlib.Path(src).name: the last component of the text, as spelled.
PathName(src) == Spelled(src.name, src.quoted /\ src.name # "")

\* One line of a markdown file.  kind: "fence" ("---\n"), "fence_sp" (the
\* dashes followed by a blank), "fence_eof" (the dashes, no newline: a last
\* line), "yaml" (text names what the line holds), "heading", "link",
\* "image", "text".
Line(kind, level, text, url) ==
    [kind |-> kind, level |-> level, text |-> text, url |-> url]

Fence == Line("fence", 0, "", NoUrl)
FenceSp == Line("fence_sp", 0, "", NoUrl)
FenceEof == Line("fence_eof", 0, "", NoUrl)
Yaml(what) == Line("yaml", 0, what, NoUrl)
Heading(level, text) == Line("heading", level, text, NoUrl)
LinkTo(url) == Line("link", 0, "", url)
ImageOf(url) == Line("image", 0, "", url)

\* One piece of the rendered markup.  kind: "heading", "link" (href: the url,
\* or the token when token > 0), "attachment" (ri:filename), "url"
\* (ri:value), "text".
Piece(kind, level, text, url, token, filename) ==
    [kind |-> kind, level |-> level, text |-> text, url |-> url,
     token |-> token, filename |-> filename]

\* ConfluenceRenderer.__init__
ConfluenceRenderer(strip_header, enable_relative_links) ==
    [strip_header |-> strip_header, enable_relative_links |-> enable_relative_links,
     title |-> None, attachments |-> <<>>, relative_links |-> <<>>, out |-> <<>>]

\* A heading that takes the title at every level-1 heading.
heading_latest(r, text, level) ==
    IF level = 1
    THEN [r EXCEPT !.title = text,
                   !.out = IF r.strip_header /\ r.title = None THEN @
                           ELSE Append(@, Piece("heading", level, text, NoUrl, 0,
                                                Spelled("", FALSE)))]
    ELSE [r EXCEPT !.out = Append(@, Piece("heading", level, text, NoUrl, 0,
                                           Spelled("", FALSE)))]

\* ConfluenceRenderer.heading: the first level-1 heading becomes the title
\* and, with strip_header, is left out of the markup.
heading(r, text, level) ==
    IF r.title = None /\ level = 1
    THEN IF r.strip_header
         THEN [r EXCEPT !.title = text]
         ELSE [r EXCEPT !.title = text,
                        !.out = Append(@, Piece("heading", level, text, NoUrl, 0,
                                                Spelled("", FALSE)))]
    ELSE [r EXCEPT !.out = Append(@, Piece("heading", level, text, NoUrl, 0,
                                           Spelled("", FALSE)))]

\* A link that takes a URL without a path for a relative link too.
link_any_path(r, url, n) ==
    IF r.enable_relative_links /\ url.scheme = "" /\ url.netloc = ""
    THEN [r EXCEPT
             !.relative_links =
                 Append(@, [path |-> unquote(urlparse(url).path),
                            replacement |-> n,
                            fragment |-> url.fragment,
                            original |-> url]),
             !.out = Append(@, Piece("link", 0, "", NoUrl, n, Spelled("", FALSE)))]
    ELSE [r EXCEPT !.out = Append(@, Piece("link", 0, "", url, 0,
                                           Spelled("", FALSE)))]

\* ConfluenceRenderer.link; n numbers the uuid4 drawn for the token.
link(r, url, n) ==
    LET parsed_link == urlparse(url)
    IN  IF /\ r.enable_relative_links
           /\ parsed_link.scheme = "" /\ parsed_link.netloc = ""
           /\ ~EmptyPath(parsed_link.path)
        THEN [r EXCEPT
                 !.relative_links =
                     Append(@, [path |-> unquote(parsed_link.path),
                                replacement |-> n,
                                fragment |-> parsed_link.fragment,
                                original |-> url]),
                 !.out = Append(@, Piece("link", 0, "", NoUrl, n,
                                         Spelled("", FALSE)))]
        ELSE [r EXCEPT !.out = Append(@, Piece("link", 0, "", url, 0,
                                               Spelled("", FALSE)))]

\* ConfluenceRenderer.image: without a netloc the image is an attachment,
\* referred to by Path(src).name; src joins the attachments.
image(r, src) ==
    LET parsed_source == urlparse(src)
    IN  IF parsed_source.netloc = ""
        THEN [r EXCEPT
                 !.attachments = Append(@, src),
                 !.out = Append(@, Piece("attachment", 0, "", NoUrl, 0,
                                         PathName(src)))]
        ELSE [r EXCEPT !.out = Append(@, Piece("url", 0, "", src, 0,
                                               Spelled("", FALSE)))]

\* ConfluenceRenderer.text and the other elements: markup without side effect.
text(r, line) ==
    [r EXCEPT !.out = Append(@, Piece("text", 0, line.kind, NoUrl, 0,
                                      Spelled("", FALSE)))]

\* yaml.safe_load on the lines between the fences; each line is named by
\* what it holds: a mapping entry ("title", "title_empty", "labels",
\* "other"), a sequence item ("item"), a plain scalar ("scalar"), text the
\* scanner rejects ("scan_error": a: b: c) or text the parser rejects
\* ("parse_error": an unclosed [).  The first offending line decides the
\* exception; a line of another shape than the first is rejected by the
\* parser.
EntryKinds == {"title", "title_empty", "labels", "other"}

Shape(what) ==
    CASE what \in EntryKinds -> "dict"
      [] what = "item" -> "list"
      [] OTHER -> "str"

Offends(whats, i) ==
    \/ whats[i] \in {"scan_error", "parse_error"}
    \/ Shape(whats[i]) # Shape(whats[1])

safe_load(whats) ==
    LET bad == { i \in DOMAIN whats : Offends(whats, i) }
        first == CHOOSE i \in bad : \A j \in bad : i <= j
        has(what) == \E i \in DOMAIN whats : whats[i] = what
    IN  IF bad # {}
        THEN [raised |-> IF whats[first] = "scan_error" THEN "ScannerError"
                         ELSE "ParserError",
              shape |-> "", has_title |-> FALSE, title |-> "",
              has_labels |-> FALSE]
        ELSE [raised |-> "", shape |-> Shape(whats[1]),
              has_title |-> has("title") \/ has("title_empty"),
              title |-> IF has("title") THEN "FM" ELSE "",
              has_labels |-> has("labels")]

\* The empty mapping get_document_frontmatter returns.
NoFrontmatter ==
    [raised |-> "", frontmatter_end_line |-> 0, has_title |-> FALSE,
     title |-> "", has_labels |-> FALSE]

\* The place of the first "---\n" line after the first line, 0 when none.
ClosingFence(markdown_lines) ==
    LET closing == { i \in 2..Len(markdown_lines) : markdown_lines[i] = Fence }
    IN  IF closing = {} THEN 0 ELSE CHOOSE i \in closing : \A j \in closing : i <= j

\* get_document_frontmatter, lines 312-315: only ParserError is caught.
Loaded(raised) == raised \in {"", "ParserError"}

\* get_document_frontmatter.  frontmatter_end_line = 0 stands for the key
\* being absent; raised names the exception that leaves the function.
get_document_frontmatter(markdown_lines) ==
    LET frontmatter_end_line ==
            IF markdown_lines # <<>> /\ markdown_lines[1] = Fence
            THEN ClosingFence(markdown_lines) ELSE 0
        whats == [i \in 1..(frontmatter_end_line - 2) |-> markdown_lines[i + 1].text]
        loaded == safe_load(whats)
    IN  IF frontmatter_end_line = 0 \/ whats = <<>>
        THEN NoFrontmatter
        ELSE IF ~Loaded(loaded.raised)
        THEN [NoFrontmatter EXCEPT !.raised = loaded.raised]
        ELSE IF loaded.raised = "" /\ loaded.shape = "dict"
        THEN [raised |-> "", frontmatter_end_line |-> frontmatter_end_line,
              has_title |-> loaded.has_title, title |-> loaded.title,
              has_labels |-> loaded.has_labels]
        ELSE NoFrontmatter

\* get_page_data_from_lines, lines 248-250: the lines handed to parse_page.
BodyLines(markdown_lines, fm) ==
    IF fm.frontmatter_end_line > 0
    THEN SubSeq(markdown_lines, fm.frontmatter_end_line + 1, Len(markdown_lines))
    ELSE markdown_lines

\* A page whose frontmatter title is ignored.
get_page_data_from_lines_heading_first(fm, r) ==
    [RunPage(IF r.title # None THEN r.title
             ELSE IF fm.has_title THEN fm.title ELSE None,
             r.out, None, None, r.relative_links, r.attachments)
        EXCEPT !.labels = IF fm.has_labels THEN LabelList(<<"x">>) ELSE NoLabels]

\* parse_page, lines 290-295, and get_page_data_from_lines, lines 259-269:
\* the Page of a finished renderer r, with the frontmatter's title and labels.
get_page_data_from_lines(fm, r) ==
    [RunPage(IF fm.has_title THEN fm.title ELSE r.title,
             r.out, None, None, r.relative_links, r.attachments)
        EXCEPT !.labels = IF fm.has_labels THEN LabelList(<<"x">>) ELSE NoLabels]

\* get_page_data_from_file_path, lines 234-239: a page without a title (none,
\* or an empty one) is named after the file.
get_page_data_from_file_path(file, fm, r) ==
    LET p == get_page_data_from_lines(fm, r)
    IN  [p EXCEPT !.title = IF p.title \in {None, ""} THEN file.stem ELSE p.title,
                  !.file_path = file.stem]

(***************************************************************************)
(* The files                                                               *)
(***************************************************************************)

MaxElements == 2

H1 == Heading(1, "H")
G1 == Heading(1, "G")
S2 == Heading(2, "S")

RelUrl == Url("", "", "", "my doc.md", "f", TRUE)
FragmentUrl == Url("", "", "", "", "f", FALSE)
HttpUrl == Url("http", "h", "/", "p", "", FALSE)
MailUrl == Url("mailto", "", "", "x", "", FALSE)

LocalPic == Url("", "", "images/", "pic.png", "", FALSE)
QuotedPic == Url("", "", "images/", "my pic.png", "", TRUE)
RemotePic == Url("https", "example.com", "/", "pic.png", "", FALSE)

Elements ==
    {H1, G1, S2} \cup { LinkTo(u) : u \in {RelUrl, FragmentUrl, HttpUrl, MailUrl} }
    \cup { ImageOf(u) : u \in {LocalPic, QuotedPic, RemotePic} }

ElementRuns == UNION { [1..k -> Elements] : k \in 0..MaxElements }

YamlBlocks ==
    { <<>>, <<Yaml("title")>>, <<Yaml("title_empty")>>, <<Yaml("other")>>,
      <<Yaml("title"), Yaml("labels")>>, <<Yaml("item")>>, <<Yaml("scalar")>>,
      <<Yaml("scan_error")>>, <<Yaml("parse_error")>>,
      <<Yaml("title"), Yaml("scan_error")>> }

\* Files that open with a fence, or with something close to one.
Fenced ==
    { <<first>> \o block \o closing \o body :
        first \in {Fence, FenceSp}, block \in YamlBlocks,
        closing \in {<<Fence>>, <<FenceSp>>, <<>>},
        body \in {<<>>, <<H1>>, <<S2, G1>>} }
    \cup { <<Fence>> \o block \o <<FenceEof>> : block \in YamlBlocks }

File(stem, lines) == [stem |-> stem, lines |-> lines]

Files == { File("a", l) : l \in ElementRuns \cup Fenced \cup {<<S2, H1, G1, S2, H1>>} }

\* The second file of a command line that names two.
OtherFile == File("b", <<LinkTo(RelUrl), LinkTo(HttpUrl), H1>>)

\* main, lines 302-309: a title is given for one file only.
DocArgs ==
    { [strip_top_header |-> st, enable_relative_links |-> erl, title |-> t] :
        st \in BOOLEAN, erl \in BOOLEAN, t \in {None, "CLI"} }

DocInit ==
    /\ args \in DocArgs
    /\ source \in { <<f>> : f \in Files } \cup { <<f, OtherFile>> : f \in Files }
    /\ args.title # None => Len(source) = 1
    /\ index = 1 /\ pc = "read" /\ next_token = 0 /\ pages_to_upload = <<>>
    /\ frontmatter = <<>> /\ renderer = <<>> /\ elements = <<>> /\ document = <<>>
    /\ confluence = {Home} /\ CallIdle /\ WalkIdle
    /\ file_list = <<>> /\ path_to_page = <<>> /\ exit_status = -1
    /\ upserts = <<>> /\ requests = <<>> /\ changed = {} /\ run = 0

docFrame == <<confluence, args, callVars, walkVars, source, file_list, path_to_page, exit_status, upserts, requests, changed, run>>

\* get_page_data_from_lines, lines 248-257: the frontmatter is read and the
\* remaining lines go to a new renderer; collect_pages_to_upload, lines
\* 689-691, turns relative links off for a single file.
ReadFile ==
    /\ pc = "read"
    /\ LET fm == get_document_frontmatter(source[index].lines)
       IN  /\ frontmatter' = fm
           /\ IF fm.raised # ""
              THEN /\ pc' = "raised"
                   /\ UNCHANGED <<renderer, elements>>
              ELSE /\ pc' = "render"
                   /\ elements' = BodyLines(source[index].lines, fm)
                   /\ renderer' = ConfluenceRenderer(args.strip_top_header,
                                     Len(source) > 1 /\ args.enable_relative_links)
    /\ UNCHANGED <<docFrame, index, next_token, pages_to_upload, document>>

RenderHeading ==
    /\ pc = "render" /\ elements # <<>> /\ Head(elements).kind = "heading"
    /\ renderer' = heading(renderer, Head(elements).text, Head(elements).level)
    /\ elements' = Tail(elements)
    /\ UNCHANGED <<docFrame, index, pc, next_token, pages_to_upload, document, frontmatter>>

RenderLink ==
    /\ pc = "render" /\ elements # <<>> /\ Head(elements).kind = "link"
    /\ renderer' = link(renderer, Head(elements).url, next_token + 1)
    /\ next_token' = IF Len(renderer'.relative_links) > Len(renderer.relative_links)
                     THEN next_token + 1 ELSE next_token
    /\ elements' = Tail(elements)
    /\ UNCHANGED <<docFrame, index, pc, pages_to_upload, document, frontmatter>>

RenderImage ==
    /\ pc = "render" /\ elements # <<>> /\ Head(elements).kind = "image"
    /\ renderer' = image(renderer, Head(elements).url)
    /\ elements' = Tail(elements)
    /\ UNCHANGED <<docFrame, index, pc, next_token, pages_to_upload, document, frontmatter>>

RenderText ==
    /\ pc = "render" /\ elements # <<>>
    /\ Head(elements).kind \notin {"heading", "link", "image"}
    /\ renderer' = text(renderer, Head(elements))
    /\ elements' = Tail(elements)
    /\ UNCHANGED <<docFrame, index, pc, next_token, pages_to_upload, document, frontmatter>>

\* get_page_data_from_file_path returns and the page joins pages_to_upload.
Assemble ==
    /\ pc = "render" /\ elements = <<>>
    /\ document' = get_page_data_from_file_path(source[index], frontmatter, renderer)
    /\ pages_to_upload' = Append(pages_to_upload, document')
    /\ IF index < Len(source)
       THEN index' = index + 1 /\ pc' = "read"
       ELSE index' = index /\ pc' = "collect"
    /\ UNCHANGED <<docFrame, next_token, frontmatter, renderer, elements>>

\* collect_pages_to_upload, lines 703-724.
Collected ==
    /\ pc = "collect"
    /\ pages_to_upload' = IF Len(pages_to_upload) = 1
                          THEN <<only_page(pages_to_upload[1], args)>>
                          ELSE pages_to_upload
    /\ pc' = "done"
    /\ UNCHANGED <<docFrame, index, next_token, frontmatter, renderer, elements, document>>

DocNext ==
    \/ ReadFile
    \/ RenderHeading
    \/ RenderLink
    \/ RenderImage
    \/ RenderText
    \/ Assemble
    \/ Collected

SpecDocument == DocInit /\ [][DocNext]_vars

(***************************************************************************)
(* Properties of the pages built from files                                *)
(***************************************************************************)

\* The file the renderer and the frontmatter are those of.
Current == source[IF pc = "read" THEN index - 1 ELSE index]

\* A file has been turned into a page and no other file has been opened since.
Built == document # <<>> /\ pc \in {"read", "collect", "done"}

\* The title the document gives: the frontmatter's, else the first level-1
\* heading's.
DocumentTitle ==
    IF frontmatter.has_title THEN frontmatter.title ELSE renderer.title

\* C12 as stated: the title of a page built from a file is the frontmatter
\* title if there is one, else the text of the first level-1 heading, else the
\* filename stem, and a title given on the command line never replaces it.
C12_TitlePrecedence ==
    (pc = "done" /\ Len(source) = 1) =>
        pages_to_upload[1].title =
            IF frontmatter.has_title THEN frontmatter.title
            ELSE IF renderer.title # None THEN renderer.title
            ELSE Current.stem

\* C12 amended: a title given on the command line (possible for a single file
\* only) is the title of the page; without one the title is the frontmatter
\* title if the frontmatter has a non-empty one, the filename stem if the
\* frontmatter has an empty one, else the text of the first level-1 heading,
\* else the filename stem.
C12_TitlePrecedenceCli ==
    /\ Built => document.title = IF DocumentTitle \in {None, ""} THEN Current.stem
                                 ELSE DocumentTitle
    /\ pc = "done" =>
          /\ Len(pages_to_upload) = Len(source)
          /\ pages_to_upload[Len(source)].title =
                IF Len(source) = 1 /\ args.title # None THEN args.title
                ELSE document.title

C12_Witness ==
    /\ pc = "done" /\ Len(source) = 1 /\ args.title = "CLI"
    /\ frontmatter.has_title /\ frontmatter.title = "FM" /\ renderer.title = "H"
    /\ pages_to_upload[1].title = "CLI"

\* The lines the renderer of the current file has been given so far.
Rendered ==
    LET body == BodyLines(source[index].lines, frontmatter)
    IN  SubSeq(body, 1, Len(body) - Len(elements))

IsHeading(x) == x.kind = "heading"

\* The place of the first level-1 heading of a sequence of headings, 0 if none.
FirstTop(hs) ==
    LET tops == { i \in DOMAIN hs : hs[i].level = 1 }
    IN  IF tops = {} THEN 0 ELSE CHOOSE i \in tops : \A j \in tops : i <= j

\* A sequence without its i-th element.
Without(seq, i) ==
    [j \in 1..(Len(seq) - 1) |-> IF j < i THEN seq[j] ELSE seq[j + 1]]

LevelText(seq) == [j \in DOMAIN seq |-> <<seq[j].level, seq[j].text>>]

\* C13, the state part: whatever headings one renderer has rendered, the
\* recorded title is the text of the first level-1 heading (none while there
\* is no such heading, whatever the other levels), and the output holds every
\* heading in order, except, with strip_header, that first level-1 heading.
C13_TitleIsFirstTop ==
    pc = "render" =>
        LET hs == SelectSeq(Rendered, IsHeading)
            emitted == SelectSeq(renderer.out, IsHeading)
            k == FirstTop(hs)
        IN  /\ renderer.title = IF k = 0 THEN None ELSE hs[k].text
            /\ LevelText(emitted) =
                  IF renderer.strip_header /\ k > 0 THEN LevelText(Without(hs, k))
                  ELSE LevelText(hs)

\* C13: the state part holds always, and a recorded title never changes while
\* the renderer goes on.
C13_FirstHeadingTitle ==
    /\ []C13_TitleIsFirstTop
    /\ [][(pc = "render" /\ pc' = "render" /\ renderer.title # None)
             => renderer'.title = renderer.title]_vars

C13_Witness ==
    /\ pc = "render" /\ elements = <<>> /\ renderer.strip_header
    /\ LevelText(SelectSeq(Rendered, IsHeading))
          = <<<<2, "S">>, <<1, "H">>, <<1, "G">>, <<2, "S">>, <<1, "H">>>>
    /\ renderer.title = "H"
    /\ LevelText(SelectSeq(renderer.out, IsHeading))
          = <<<<2, "S">>, <<1, "G">>, <<2, "S">>, <<1, "H">>>>

\* The lines between the first line and the line at place closing.
Enclosed(lines, closing) == [i \in 1..(closing - 2) |-> lines[i + 1].text]

\* A file without frontmatter: the first line is not exactly the fence, or no
\* later line is, or the enclosed text is empty, fails to parse or is not a
\* mapping.
NotFrontmatter(lines) ==
    \/ lines = <<>>
    \/ lines[1] # Fence
    \/ ClosingFence(lines) <= 2
    \/ LET loaded == safe_load(Enclosed(lines, ClosingFence(lines)))
       IN  loaded.raised # "" \/ loaded.shape # "dict"

\* Every line of the file has been or will be given to the renderer.
WholeFileRendered(lines) ==
    /\ Len(elements) <= Len(lines)
    /\ elements = SubSeq(lines, Len(lines) - Len(elements) + 1, Len(lines))
    /\ Len(lines) - Len(elements) =
          Len(renderer.out)
          + (IF renderer.strip_header /\ renderer.title # None THEN 1 ELSE 0)

\* C14: get_document_frontmatter never raises, and for a file whose first line
\* is not exactly the fence, that has no closing fence, or whose enclosed text
\* fails to parse as a YAML mapping, it returns the empty mapping and the whole
\* line sequence is the body.
C14_FrontmatterNeverRaises ==
    /\ pc # "raised"
    /\ (pc = "render" /\ NotFrontmatter(source[index].lines)) =>
          /\ frontmatter = NoFrontmatter
          /\ WholeFileRendered(source[index].lines)

IsImage(x) == x.kind = "image"
IsLocalImage(x) == x.kind = "image" /\ x.url.scheme = "" /\ x.url.netloc = ""
IsReference(x) == x.kind \in {"attachment", "url"}

\* C19: an image whose URL has no scheme and host is rendered as an attachment
\* reference that carries only the URL-decoded basename of the path, and its
\* path joins the attachments exactly once; an image whose URL has a scheme
\* and host is rendered as a URL reference with the full URL and adds nothing
\* to the attachments.
C19_ImageReferences ==
    pc = "render" =>
        LET images == SelectSeq(Rendered, IsImage)
            locals == SelectSeq(Rendered, IsLocalImage)
            references == SelectSeq(renderer.out, IsReference)
        IN  /\ Len(references) = Len(images)
            /\ \A i \in DOMAIN images :
                  IF IsLocalImage(images[i])
                  THEN /\ references[i].kind = "attachment"
                       /\ references[i].filename = Spelled(images[i].url.name, FALSE)
                  ELSE /\ references[i].kind = "url"
                       /\ references[i].url = images[i].url
            /\ renderer.attachments = [i \in DOMAIN locals |-> locals[i].url]

IsLink(x) == x.kind = "link"

\* A URL without scheme, without netloc and with a path.
IsRelative(url) ==
    url.scheme = "" /\ url.netloc = "" /\ (url.dir # "" \/ url.name # "")

IsRelativeLink(x) == x.kind = "link" /\ IsRelative(x.url)

\* The relative links recorded so far in the batch: those of the pages
\* collected and those of the renderer at work, each named by where it is.
Recorded ==
    { <<i, j>> : i \in DOMAIN pages_to_upload, j \in 1..MaxElements + 3 } \cup
    { <<0, j>> : j \in 1..MaxElements + 3 }

LinksOf(i) ==
    IF i = 0 THEN (IF pc = "render" THEN renderer.relative_links ELSE <<>>)
    ELSE pages_to_upload[i].relative_links

TokenAt(w) == LinksOf(w[1])[w[2]].replacement

\* C20: with relative links on, a link is recorded as a RelativeLink and
\* rendered with a token as href exactly when its URL has no scheme, no netloc
\* and a non-empty path; every other link, and every link with relative links
\* off, is rendered with its own URL and records nothing; no two tokens of the
\* batch are the same.
C20_RelativeLinks ==
    /\ pc = "render" =>
          LET links == SelectSeq(Rendered, IsLink)
              relative == IF renderer.enable_relative_links
                          THEN SelectSeq(Rendered, IsRelativeLink) ELSE <<>>
              hrefs == SelectSeq(renderer.out, IsLink)
              place(i) == Len(SelectSeq(SubSeq(links, 1, i), IsRelativeLink))
          IN  /\ Len(hrefs) = Len(links)
              /\ Len(renderer.relative_links) = Len(relative)
              /\ \A i \in DOMAIN links :
                    IF renderer.enable_relative_links /\ IsRelative(links[i].url)
                    THEN /\ hrefs[i].token > 0
                         /\ hrefs[i].url = NoUrl
                         /\ renderer.relative_links[place(i)].replacement = hrefs[i].token
                         /\ renderer.relative_links[place(i)].original = links[i].url
                    ELSE /\ hrefs[i].token = 0
                         /\ hrefs[i].url = links[i].url
    /\ \A v \in Recorded, w \in Recorded :
          ( /\ v # w
            /\ v[2] <= Len(LinksOf(v[1]))
            /\ w[2] <= Len(LinksOf(w[1])) ) => TokenAt(v) # TokenAt(w)

C20_Witness ==
    /\ pc = "render" /\ index = 2 /\ elements = <<>>
    /\ Len(pages_to_upload[1].relative_links) = 2
    /\ Len(renderer.relative_links) = 1
    /\ \E i \in DOMAIN renderer.out :
          renderer.out[i].kind = "link" /\ renderer.out[i].url = HttpUrl
    /\ TokenAt(<<0, 1>>) \notin {TokenAt(<<1, 1>>), TokenAt(<<1, 2>>)}

(***************************************************************************)
(* md2cf/document.py: get_pages_from_directory                             *)
(***************************************************************************)

\* The directories: base is the directory given, the others lie below it.
base_path == "base"

ParentDir(dir) ==
    CASE dir = "a" -> base_path
      [] dir = "b" -> "a"
      [] dir = "d" -> "b"
      [] dir = "c" -> base_path
      [] OTHER -> "/"

\* current_dir.parents: the directories above dir, the nearest first.
RECURSIVE Parents(_)
Parents(dir) ==
    IF dir \in {base_path, "/"} THEN <<>> ELSE <<ParentDir(dir)>> \o Parents(ParentDir(dir))

\* A title: the names of a path ("path": a folder name is a path of one
\* name), a beautified folder name ("beautiful"), the title of a directory's
\* .pages file ("pages"), the title of a document ("doc"), or none.
Title(kind, v) == [kind |-> kind, v |-> v]

NoTitle == Title("none", <<>>)

\* str(current_path.relative_to(folder_parent_path)): the names from below
\* the ancestor down to dir.
RECURSIVE relative_to(_, _)
relative_to(dir, ancestor) ==
    IF dir = ancestor \/ dir \in {base_path, "/"} THEN <<>>
    ELSE relative_to(ParentDir(dir), ancestor) \o <<dir>>

\* A page of the walk.  dir and folder are not fields of Page: they tell
\* which directory the page comes from and whether it is its folder page.
WalkPage(title, parent_title, file_path, dir, folder) ==
    [title |-> title, parent_title |-> parent_title, file_path |-> file_path,
     dir |-> dir, folder |-> folder]

\* find_non_empty_parent_path
find_non_empty_parent_path(current_dir, fd, default) ==
    LET ps == Parents(current_dir)
        full == { i \in DOMAIN ps : ps[i] \in DOMAIN fd /\ fd[ps[i]].n_files > 0 }
    IN  IF full = {} THEN default
        ELSE ps[CHOOSE i \in full : \A j \in full : i <= j]

\* The titles of one directory, lines 136-175.  t is the tree, a the policies.
FolderTitles(current_path, t, a, fd) ==
    LET n == t[current_path].n_files
        folder_parent_path ==
            IF a.skip_empty \/ a.collapse_empty
            THEN find_non_empty_parent_path(current_path, fd, base_path)
            ELSE ParentDir(current_path)
        folder_parent_title ==
            IF current_path # base_path THEN fd[folder_parent_path].title ELSE NoTitle
        named ==
            IF a.beautify_folders THEN Title("beautiful", <<current_path>>)
            ELSE IF a.collapse_empty
            THEN Title("path", relative_to(current_path, folder_parent_path))
            ELSE Title("path", <<current_path>>)
        collapsed == n = 1 /\ a.collapse_single_pages
        pages_file == a.use_pages_file /\ t[current_path].pages_title
    IN  [folder_parent_title |-> folder_parent_title,
         parent_page_title |->
             IF pages_file THEN Title("pages", <<current_path>>)
             ELSE IF current_path = base_path THEN NoTitle
             ELSE IF collapsed THEN folder_parent_title ELSE named,
         folder_title |->
             IF pages_file THEN Title("pages", <<current_path>>)
             ELSE IF current_path = base_path \/ collapsed THEN NoTitle ELSE named]

\* The subdirectories of dir in the tree.
directories(dir, t) == { x \in DOMAIN t : x # base_path /\ ParentDir(x) = dir }

\* Lines 179-181: the directory gets a folder page.
emits_folder_page(current_path, t, a, folder_title) ==
    /\ folder_title # NoTitle
    /\ \/ t[current_path].n_files > 0
       \/ directories(current_path, t) # {} /\ ~a.skip_empty /\ ~a.collapse_empty

\* The pages of the markdown files of a directory, lines 190-198.
FilePages(current_path, t, parent_page_title) ==
    [k \in 1..t[current_path].n_files |->
        WalkPage(Title("doc", <<current_path, IF k = 1 THEN "f1" ELSE IF k = 2 THEN "f2" ELSE "f3">>),
                 parent_page_title, <<current_path, k>>, current_path, FALSE)]

\* One turn of the loop over os.walk, lines 117-204: the pages the directory
\* adds and its entry in folder_data.
walk_directory(current_path, t, a, fd) ==
    LET n == t[current_path].n_files
        titles == FolderTitles(current_path, t, a, fd)
        files == FilePages(current_path, t, titles.parent_page_title)
    IN  [pages |->
             (IF emits_folder_page(current_path, t, a, titles.folder_title)
              THEN <<WalkPage(titles.folder_title, titles.folder_parent_title,
                              None, current_path, TRUE)>>
              ELSE <<>>) \o files,
         data |->
             [n_files |-> n,
              title |-> IF n = 1 /\ a.collapse_single_pages THEN files[1].title
                        ELSE titles.folder_title]]

(***************************************************************************)
(* The directory trees                                                     *)
(***************************************************************************)

MaxMd == 2

Dir(n_files, pages_title) == [n_files |-> n_files, pages_title |-> pages_title]

\* base holds a, and perhaps c; a holds perhaps b, which holds perhaps d.
\* base and a may have a .pages file with a title.
Trees ==
    LET tops == { [x \in {base_path, "a"} |-> Dir(n[x], pt[x])] :
                    n \in [{base_path, "a"} -> 0..MaxMd],
                    pt \in [{base_path, "a"} -> BOOLEAN] }
        deep == { <<>> } \cup { [x \in {"b"} |-> Dir(n, FALSE)] : n \in 0..MaxMd }
                 \cup { [x \in {"b", "d"} |-> Dir(n[x], FALSE)] :
                          n \in [{"b", "d"} -> 0..MaxMd] }
        side == { <<>> } \cup { [x \in {"c"} |-> Dir(n, FALSE)] : n \in 0..1 }
    IN  { t @@ u @@ v : t \in tops, u \in deep, v \in side }

\* os.walk goes top-down, a directory before the directories below it; the
\* order of a and c is that of the listing of base.
Walks(t) ==
    LET below == SelectSeq(<<"a", "b", "d">>, LAMBDA x : x \in DOMAIN t)
    IN  IF "c" \in DOMAIN t
        THEN { <<base_path>> \o below \o <<"c">>, <<base_path, "c">> \o below }
        ELSE { <<base_path>> \o below }

WalkArgs ==
    { [skip_empty |-> se, collapse_empty |-> ce, collapse_single_pages |-> cs,
       beautify_folders |-> bf, use_pages_file |-> up] :
        se \in BOOLEAN, ce \in BOOLEAN, cs \in BOOLEAN, bf \in BOOLEAN,
        up \in BOOLEAN }

WalkInit ==
    /\ args \in WalkArgs
    /\ tree \in Trees
    /\ todo \in Walks(tree)
    /\ folder_data = <<>> /\ processed_pages = <<>>
    /\ pc = "walk"
    /\ confluence = {Home} /\ CallIdle /\ DocIdle
    /\ file_list = <<>> /\ pages_to_upload = <<>> /\ path_to_page = <<>>
    /\ index = 0 /\ exit_status = -1 /\ upserts = <<>> /\ requests = <<>>
    /\ changed = {} /\ next_token = 0 /\ run = 0

walkFrame == <<confluence, args, callVars, docVars, tree, file_list, pages_to_upload, path_to_page, index, exit_status, upserts, requests, changed, next_token, run>>

\* One turn of the loop, lines 117-204.
WalkDirectory ==
    /\ pc = "walk" /\ todo # <<>>
    /\ LET current_path == Head(todo)
           turn == walk_directory(current_path, tree, args, folder_data)
       IN  /\ processed_pages' = processed_pages \o turn.pages
           /\ folder_data' = (current_path :> turn.data) @@ folder_data
    /\ todo' = Tail(todo)
    /\ UNCHANGED <<walkFrame, pc>>

\* Line 206.
WalkReturn ==
    /\ pc = "walk" /\ todo = <<>>
    /\ pc' = "returned"
    /\ UNCHANGED <<walkFrame, todo, folder_data, processed_pages>>

WalkNext ==
    \/ WalkDirectory
    \/ WalkReturn

SpecWalk == WalkInit /\ [][WalkNext]_vars

(***************************************************************************)
(* Properties of the pages of a directory                                  *)
(***************************************************************************)

\* The directories walked so far.
Walked == DOMAIN folder_data

PagesFrom(dir) ==
    { i \in DOMAIN processed_pages : processed_pages[i].dir = dir }

FolderPageOf(dir) ==
    { i \in PagesFrom(dir) : processed_pages[i].folder }

\* The pages that stand for a directory towards the directories above it:
\* its folder page, or its documents when it has no folder page.
TopPagesOf(dir) ==
    IF FolderPageOf(dir) # {} THEN FolderPageOf(dir) ELSE PagesFrom(dir)

\* The directories above dir that hold markdown files, base left out.
FullAbove(dir) ==
    LET ps == Parents(dir)
    IN  { ps[i] : i \in { j \in DOMAIN ps : ps[j] # base_path /\ tree[ps[j]].n_files > 0 } }

\* The nearest of them: the one that has all the others above it.
Nearest(dirs) ==
    CHOOSE x \in dirs : \A y \in dirs : y = x \/ y \in { Parents(x)[i] : i \in DOMAIN Parents(x) }

\* C15: under every combination of the policies, every page with a
\* parent_title comes later in the list than a page whose title is that
\* parent_title.
C15_ParentsFirst ==
    \A i \in DOMAIN processed_pages :
        processed_pages[i].parent_title # NoTitle =>
            \E j \in 1..(i - 1) :
                processed_pages[j].title = processed_pages[i].parent_title

\* C16: under every combination of the policies, also with a .pages title in
\* the root, no folder page is emitted for the root directory.
C16_NoRootPage == FolderPageOf(base_path) = {}

\* C17: with collapse_single_pages, a directory with exactly one markdown file
\* has no folder page; the page of the file has as parent_title the title
\* recorded for the directory's parent in the hierarchy (none for the root),
\* and the pages that stand for its subdirectories have the title of the
\* file's page as parent_title.
C17_SingleFileCollapsed ==
    \A x \in Walked :
        (args.collapse_single_pages /\ tree[x].n_files = 1) =>
            /\ FolderPageOf(x) = {}
            /\ \A i \in PagesFrom(x) :
                  /\ processed_pages[i].parent_title =
                        IF x = base_path THEN NoTitle
                        ELSE IF args.skip_empty \/ args.collapse_empty
                        THEN (IF FullAbove(x) # {}
                              THEN folder_data[Nearest(FullAbove(x))].title
                              ELSE folder_data[base_path].title)
                        ELSE folder_data[ParentDir(x)].title
                  /\ \A y \in Walked : \A k \in TopPagesOf(y) :
                        (y # base_path /\ ParentDir(y) = x) =>
                            processed_pages[k].parent_title = processed_pages[i].title

\* C18: with skip_empty, a directory without markdown files has no folder
\* page, and the pages that stand for a directory below it are parented to a
\* page of the nearest directory above that holds markdown files, or have no
\* parent_title when there is no such directory below the root.
C18_EmptySkipped ==
    args.skip_empty =>
        \A x \in Walked :
            tree[x].n_files = 0 =>
                /\ FolderPageOf(x) = {}
                /\ \A y \in Walked : \A k \in TopPagesOf(y) :
                      (y # base_path /\ ParentDir(y) = x) =>
                          IF FullAbove(y) = {}
                          THEN processed_pages[k].parent_title = NoTitle
                          ELSE \E j \in PagesFrom(Nearest(FullAbove(y))) :
                                  processed_pages[j].title = processed_pages[k].parent_title

(***************************************************************************)
(* Further properties of a run                                             *)
(***************************************************************************)

\* The page an attachment call of the log belongs to: the name of the last
\* page call before it.
OwnerOf(i) ==
    LET before == { j \in 1..(i - 1) : upserts[j].kind = "page" }
    IN  upserts[CHOOSE j \in before : \A o \in before : o <= j].name

\* The remote attachments with the name of the i-th call on the page it
\* belongs to (uploads never reach the wiki, so they are those the call saw).
RemoteFiles(i) ==
    { a \in ByTitle(confluence, OwnerOf(i)).files : a.name = upserts[i].name }

UpToDate(a, name) ==
    /\ Len(a.message) > 0
    /\ a.message[Len(a.message)] = Marker(get_file_sha1(name))

Sent(op, name) ==
    \E k \in DOMAIN requests : requests[k].op = op /\ requests[k].title = name

\* C21: an upsert_attachment call that the wiki does not refuse returns
\* CREATED, after a create_attachment upload, when the page has no remote
\* attachment of that name; SKIPPED, without upload, when it has one,
\* only_changed is on and its version message ends with the marker of the
\* file's SHA-1; and otherwise UPDATED, after an update_attachment upload.
C21_AttachmentUpsert ==
    \A i \in DOMAIN upserts :
        (upserts[i].kind = "attachment" /\ upserts[i].raised # "HTTPError") =>
            /\ upserts[i].raised = ""
            /\ IF RemoteFiles(i) = {}
               THEN /\ upserts[i].action = "CREATED"
                    /\ Sent("create_attachment", upserts[i].name)
               ELSE IF args.only_changed
                       /\ \E a \in RemoteFiles(i) : UpToDate(a, upserts[i].name)
               THEN /\ upserts[i].action = "SKIPPED"
                    /\ ~Sent("create_attachment", upserts[i].name)
                    /\ ~Sent("update_attachment", upserts[i].name)
               ELSE /\ upserts[i].action = "UPDATED"
                    /\ Sent("update_attachment", upserts[i].name)

(***************************************************************************)
(* Further properties of upsert_page                                       *)
(***************************************************************************)

\* C22: upsert_page sends add_labels only when the page existed remotely, the
\* action is not SKIPPED, replace_all_labels is off, page.labels is non-empty
\* and the set of remote label names differs from the set of page.labels.
C22_AddLabelsOnlyOnWrite ==
    (ncalls >= 1 /\ Count(result.trace, "add_labels") > 0) =>
        /\ result.found # NoPage
        /\ result.action # "SKIPPED"
        /\ ~args.replace_all_labels
        /\ ~result.page.labels.none /\ result.page.labels.list # <<>>
        /\ NamesOf(result.found.labels) # NamesOf(result.page.labels.list)

(***************************************************************************)
(* update_pages_with_relative_links called on its own                      *)
(***************************************************************************)

\* The remote page the publish loop leaves for a page of the batch.
PublishedAs(id, p) ==
    RemotePage(id, p.title, <<HomeId>>, <<Marker(get_content_hash(p))>>, <<>>, p.body)

\* The path_to_page arguments: any of the batch's files may be missing.
PathMaps(pa, pb) ==
    LET full == [k \in {"/docs/a.md", "/docs/b.md"} |->
                    IF k = "/docs/a.md" THEN PublishedAs(3, pa) ELSE PublishedAs(4, pb)]
    IN  { [k \in keys |-> full[k]] : keys \in SUBSET DOMAIN full }

LinksInit ==
    /\ args \in { a \in MainArgs : a.enable_relative_links }
    /\ \E la \in LinkLists, lb \in {<<>>, <<"a.md">>} :
          LET da == Doc("A", "a.md", None, la, <<>>)
              db == Doc("B", "b.md", None, lb, <<>>)
              pa == parse_page(da, TRUE, 0)
              pb == parse_page(db, TRUE, Len(la))
          IN  /\ file_list = [from_dir |-> FALSE, docs |-> <<da, db>>]
              /\ pages_to_upload = <<pa, pb>>
              /\ confluence = {Home, PublishedAs(3, pa), PublishedAs(4, pb)}
              /\ path_to_page \in PathMaps(pa, pb)
              /\ next_token = Len(la) + Len(lb)
    /\ CallIdle
    /\ DocIdle /\ WalkIdle
    /\ pc = "links" /\ index = 1 /\ exit_status = -1
    /\ upserts = <<>> /\ requests = <<>> /\ changed = {} /\ run = 1

LinksNext == Substitute

SpecLinks == LinksInit /\ [][LinksNext]_vars

\* The links of page i whose target path is not a key of path_to_page.
MissingLinks(i) ==
    { j \in DOMAIN pages_to_upload[i].relative_links :
        Resolve(pages_to_upload[i].relative_links[j].path) \notin DOMAIN path_to_page }

\* The iteration of the substitution pass for page i has run.
Substituted(i) == (pc = "links" /\ index > i) \/ (pc = "exit" /\ index >= i)

\* The token of link j of page i is still in the page's body.
TokenLeft(i, j) ==
    \E k \in DOMAIN pages_to_upload[i].body :
       pages_to_upload[i].body[k] = pages_to_upload[i].relative_links[j].replacement

HasToken(body) == \E k \in DOMAIN body : body[k].kind = "tok"

\* The collection left one page, parsed with relative links and holding some.
LonePageWithLinks ==
    /\ Len(pages_to_upload) = 1
    /\ Len(file_list.docs) = 1
    /\ file_list.from_dir /\ args.enable_relative_links
    /\ file_list.docs[1].links # <<>>

\* C24: when the collection ends with exactly one page and that page has
\* relative links, every token of its body is replaced by the link's escaped
\* original text and relative_links is emptied, so no body published for the
\* page holds a token.
C24_LonePageLinksRestored ==
    LonePageWithLinks =>
        /\ pages_to_upload[1].relative_links = <<>>
        /\ pages_to_upload[1].body =
              <<Text(file_list.docs[1].title)>>
              \o [j \in DOMAIN file_list.docs[1].links |->
                     Seg("esc", file_list.docs[1].links[j], 0)]
        /\ \A m \in DOMAIN upserts :
              upserts[m].kind = "page" => ~HasToken(upserts[m].body)

(***************************************************************************)
(* Properties of page_needs_updating, seen through upsert_page             *)
(***************************************************************************)

\* Under only_changed the call found the page, resolved the parent and asked
\* page_needs_updating (a lookup that raised ends the call before that).
Asked ==
    /\ ncalls >= 1 /\ args.only_changed /\ result.found # NoPage
    /\ result.raised # "KeyError"
    /\ result.raised = "HTTPError" => result.trace[Len(result.trace)].op # "get_page"

\* page_needs_updating returned True: upsert_page went on to update_page.
SaidTrue == result.action # "SKIPPED" /\ Count(result.trace, "update_page") = 1

\* C25: page_needs_updating returns True when the page has no parent_id and
\* the remote page has a parent (one ancestor or more: a child as well as a
\* grandchild), even when the content-hash marker matches.
C25_MoveToTopLevel ==
    (Asked /\ result.page.parent_id = NoId /\ Len(result.found.ancestors) >= 1)
        => SaidTrue

\* C26: page_needs_updating returns True, without raising, when the page has
\* a parent_id and the remote page's ancestor list is empty.
C26_NoAncestors ==
    (Asked /\ result.page.parent_id # NoId /\ result.found.ancestors = <<>>)
        => (result.raised # "IndexError" /\ SaidTrue)

\* The message ends with a content-hash marker.
EndsWithMarker(message) == Len(message) > 0 /\ message[Len(message)].k = "marker"

\* Where the message carries its final marker: at its end, or just before a
\* line feed that ends it (0 when it carries none there).
MarkerAt(message) ==
    IF EndsWithMarker(message) THEN Len(message)
    ELSE IF Len(message) > 1 /\ message[Len(message)] = Newline
            /\ message[Len(message) - 1].k = "marker"
    THEN Len(message) - 1
    ELSE 0

\* Parent and labels give no reason to update the page.
OnlyTheHashDecides(p, existing) ==
    /\ ~ParentDiffers(p, existing)
    /\ ~(/\ args.replace_all_labels
         /\ ~p.labels.none
         /\ sorted(existing.labels) # sorted(p.labels.list))

DirectlyInRoot ==
    { i \in DOMAIN processed_pages :
        \/ processed_pages[i].dir = base_path /\ ~processed_pages[i].folder
        \/ /\ processed_pages[i].folder
           /\ processed_pages[i].dir # base_path
           /\ ParentDir(processed_pages[i].dir) = base_path }

\* C28: under every combination of the policies, also with
\* collapse_single_pages when the root holds exactly one markdown file, every
\* page for a file or a folder directly in the root has no parent_title.
C28_RootLevelUnparented ==
    \A i \in DirectlyInRoot : processed_pages[i].parent_title = NoTitle

(***************************************************************************)
(* Properties of map_document_path_to_confluence_page                      *)
(***************************************************************************)

\* The page of the batch whose file is the key k of the map.
PageOfKey(k) ==
    CHOOSE i \in DOMAIN pages_to_upload :
        pages_to_upload[i].file_path # None /\ Resolve(pages_to_upload[i].file_path) = k

\* The publish of the page of that title succeeded: its upsert_page of the
\* publish loop returned, and so did every upsert_attachment that followed.
PublishSucceeded(title) ==
    /\ \E m \in DOMAIN upserts :
          /\ upserts[m].kind = "page" /\ upserts[m].pass = 1
          /\ upserts[m].name = title /\ upserts[m].raised = ""
    /\ \A o \in DOMAIN upserts :
          (upserts[o].kind = "attachment" /\ OwnerOf(o) = title) => upserts[o].raised = ""

\* The entries the substitution pass reads: the targets of the links.
EntriesRead ==
    UNION { { Resolve(pages_to_upload[i].relative_links[j].path) :
                j \in DOMAIN pages_to_upload[i].relative_links } :
            i \in DOMAIN pages_to_upload } \cap DOMAIN path_to_page

\* C29: an entry of the map is filled with the page's remote page only after
\* the page's own publish succeeded; the substitution pass (the only reader)
\* begins only when the publish loop has ended without failure; so outside a
\* dry run every entry it reads holds a published page, never the initial
\* empty value.
C29_MapFilledBeforeRead ==
    /\ \A k \in DOMAIN path_to_page :
          path_to_page[k] # NoPage =>
              /\ path_to_page[k].title = pages_to_upload[PageOfKey(k)].title
              /\ path_to_page[k].id # NoId
              /\ PublishSucceeded(path_to_page[k].title)
    /\ pc = "links" =>
          /\ \A m \in DOMAIN upserts : upserts[m].pass = 1 => upserts[m].raised = ""
          /\ \A i \in DOMAIN pages_to_upload :
                (pages_to_upload[i].file_path # None /\ ~args.dry_run) =>
                    PublishSucceeded(pages_to_upload[i].title)
          /\ ~args.dry_run => \A k \in EntriesRead : path_to_page[k] # NoPage

\* The pass has read an entry (a link was substituted and the page written
\* again) and the entry held the published page.
C29_Witness ==
    /\ pc = "exit" /\ exit_status = 0 /\ ~args.dry_run
    /\ \E m \in DOMAIN upserts : upserts[m].pass = 3 /\ upserts[m].raised = ""
    /\ \A k \in DOMAIN path_to_page : path_to_page[k] # NoPage

(***************************************************************************)
(* md2cf/confluence_renderer.py: block_code                                *)
(***************************************************************************)

\* Rendered markup is a sequence of atoms: an opening tag with its
\* attributes, a closing tag, the CDATA brackets, and single characters.
Atom(kind, s, attrib) == [kind |-> kind, s |-> s, attrib |-> attrib]
Char(c) == Atom("char", c, <<>>)
LineFeed == Char("\n")

\* ConfluenceTag.__init__
ConfluenceTag(name, content, attrib, cdata) ==
    [name |-> name, text |-> content, attrib |-> attrib, children |-> <<>>,
     cdata |-> cdata]

\* ConfluenceTag.append
append(tag, child) == [tag EXCEPT !.children = Append(@, child)]

\* ConfluenceTag.render: the opening tag, the children, the text (between the
\* CDATA brackets when cdata is set), the closing tag and a line feed.
RECURSIVE render(_)
RECURSIVE render_all(_)
render_all(children) ==
    IF children = <<>> THEN <<>>
    ELSE render(Head(children)) \o render_all(Tail(children))

render(tag) ==
    <<Atom("open", tag.name, tag.attrib)>>
    \o render_all(tag.children)
    \o (IF tag.cdata
        THEN <<Atom("cdata_open", "<![CDATA[", <<>>)>> \o tag.text
             \o <<Atom("cdata_close", "]]>", <<>>)>>
        ELSE tag.text)
    \o <<Atom("close", tag.name, <<>>), LineFeed>>

structured_macro(name) == ConfluenceTag("structured-macro", <<>>, <<"name", name>>, FALSE)

parameter(name, value) == ConfluenceTag("parameter", <<Char(value)>>, <<"name", name>>, FALSE)

plain_text_body(body) == ConfluenceTag("plain-text-body", body, <<>>, TRUE)

\* ConfluenceRenderer.block_code(code, lang)
block_code(code, lang) ==
    LET root_element == structured_macro("code")
        with_lang == IF lang # None
                     THEN append(root_element, parameter("language", lang))
                     ELSE root_element
        numbered == append(with_lang, parameter("linenumbers", "true"))
    IN  render(append(numbered, plain_text_body(code)))

\* The code blocks: up to MaxCode characters, letters and line feeds.
MaxCode == 4

Codes == UNION { [1..k -> {Char("x"), LineFeed}] : k \in 0..MaxCode }

CodeInit ==
    /\ source \in { [code |-> c, lang |-> l] : c \in Codes, l \in {None, "python", "whitespace"} }
    /\ pc = "code" /\ document = <<>>
    /\ frontmatter = <<>> /\ renderer = <<>> /\ elements = <<>>
    /\ args = [strip_top_header |-> FALSE, enable_relative_links |-> FALSE,
               title |-> None]
    /\ confluence = {Home} /\ CallIdle /\ WalkIdle
    /\ index = 0 /\ next_token = 0 /\ pages_to_upload = <<>>
    /\ file_list = <<>> /\ path_to_page = <<>> /\ exit_status = -1
    /\ upserts = <<>> /\ requests = <<>> /\ changed = {} /\ run = 0

\* mistune hands a code block to the renderer.
BlockCode ==
    /\ pc = "code"
    /\ document' = block_code(source.code, source.lang)
    /\ pc' = "rendered"
    /\ UNCHANGED <<docFrame, index, next_token, pages_to_upload, frontmatter,
                   renderer, elements>>

CodeNext == BlockCode

SpecCode == CodeInit /\ [][CodeNext]_vars

\* The positions of the atoms of that kind in the rendered block.
AtomsAt(kind) == { i \in DOMAIN document : document[i].kind = kind }

\* C30: block_code renders a code macro whose plain-text body is wrapped in
\* CDATA and whose code text always ends with a line feed, also when the code
\* handed in has none at its end.
C30_CodeEndsWithNewline ==
    pc = "rendered" =>
        /\ document[1] = Atom("open", "structured-macro", <<"name", "code">>)
        /\ \E i, j \in DOMAIN document :
              /\ AtomsAt("cdata_open") = {i} /\ AtomsAt("cdata_close") = {j}
              /\ i < j
              /\ document[i - 1] = Atom("open", "plain-text-body", <<>>)
              /\ document[j + 1] = Atom("close", "plain-text-body", <<>>)
              /\ \A k \in (i + 1)..(j - 1) : document[k].kind = "char"
              /\ document[j - 1] = LineFeed

====
